---- MODULE Spec2Model ----
(***************************************************************************)
(* Zentrafuge v9: the graduated safety-risk assessor                       *)
(* (backend/orchestrator.py, EnhancedSafetyMonitor) and the multi-tier     *)
(* memory subsystem (backend/memory/micro_memory.py,                       *)
(* memory_consolidator.py, memory_manager.py).                             *)
(*                                                                         *)
(* Text is a sequence of words.  Python's `kw in text` is a contiguous     *)
(* match of the keyword's words; the vocabulary below is chosen so that    *)
(* no word of it contains a keyword word as a proper substring, hence the  *)
(* word match and the character match agree on every message drawn.        *)
(* Numbers with a fraction are fixed point: emotional intensity in         *)
(* hundredths, importance in tenths, time in days.                         *)
(***************************************************************************)
EXTENDS Integers, Sequences, FiniteSets, TLC

(***************************************************************************)
(* Bounds of the model                                                     *)
(***************************************************************************)
MaxFragments == 2
MaxHistory == 3
InitialMemories == 9
MaxMicro == 11
MaxSessionMessages == 2
MaxTicks == 2
MaxMarkFailures == 1
MaxStoreDocs == 2
MaxHalfLives == 6
MaxReadDocs == 3
MaxTurns == 2
MaxReplyTurns == 1
MaxUsers == 2
MaxRequests == 2
MaxInstances == 2
MaxInstanceMessages == 2
MaxSavedSessions == 1
MaxSnapshots == 6
MaxExchanges == 23

(***************************************************************************)
(* EnhancedSafetyMonitor: keyword tables                                   *)
(***************************************************************************)
critical_keywords ==
    <<
        <<"kill", "myself">>, <<"end", "my", "life">>, <<"suicide">>,
        <<"want", "to", "die">>, <<"going", "to", "kill", "myself">>,
        <<"plan", "to", "die">>, <<"planning", "to", "die">>,
        <<"going", "to", "end", "it">>, <<"end", "it", "all", "tonight">>,
        <<"end", "it", "all", "today">>, <<"snuff", "myself">>,
        <<"do", "myself", "in">>, <<"top", "myself">>, <<"off", "myself">>,
        <<"end", "it">>, <<"finish", "it">>, <<"done", "with", "life">>,
        <<"jump", "off">>, <<"overdose">>, <<"pills", "and">>,
        <<"cut", "my", "wrists">>, <<"hang", "myself">>, <<"hanging", "myself">>,
        <<"goodbye", "forever">>, <<"last", "time">>,
        <<"won't", "be", "here", "tomorrow">>, <<"this", "is", "it">>,
        <<"final", "message">>, <<"saying", "goodbye">>
    >>

high_risk_keywords ==
    <<
        <<"don't", "want", "to", "live">>, <<"can't", "go", "on">>,
        <<"no", "reason", "to", "live">>, <<"better", "off", "dead">>,
        <<"world", "better", "without", "me">>, <<"shouldn't", "be", "here">>,
        <<"wish", "I", "was", "dead">>, <<"wish", "I", "wasn't", "here">>,
        <<"don't", "want", "to", "be", "here", "anymore">>,
        <<"can't", "do", "this", "anymore">>, <<"too", "much", "to", "bear">>,
        <<"can't", "take", "it", "anymore">>, <<"rather", "be", "dead">>,
        <<"had", "enough", "of", "life">>, <<"done", "with", "it", "all">>,
        <<"can't", "cope">>, <<"end", "of", "my", "tether">>,
        <<"at", "the", "end">>, <<"burden", "on", "everyone">>,
        <<"burden", "to">>, <<"everyone", "better", "off">>,
        <<"tired", "of", "being", "a", "burden">>,
        <<"they'd", "be", "better", "without", "me">>
    >>

medium_risk_keywords ==
    <<
        <<"hurt", "myself">>, <<"harm", "myself">>, <<"cut", "myself">>,
        <<"cutting", "myself">>, <<"burn", "myself">>, <<"punish", "myself">>,
        <<"self", "harm">>, <<"self-harm">>, <<"hate", "myself">>,
        <<"worthless">>, <<"piece", "of", "shit">>, <<"waste", "of", "space">>,
        <<"hopeless">>, <<"no", "hope">>, <<"give", "up">>, <<"giving", "up">>,
        <<"pointless">>, <<"no", "point">>, <<"what's", "the", "point">>,
        <<"can't", "see", "a", "way", "out">>, <<"trapped">>, <<"no", "escape">>,
        <<"no", "future">>, <<"nothing", "left">>, <<"empty", "inside">>,
        <<"numb">>, <<"dead", "inside">>
    >>

ideation_keywords ==
    <<
        <<"wish", "i", "was", "dead">>, <<"wish", "i", "wasn't", "here">>,
        <<"shouldn't", "exist">>, <<"world", "better", "without", "me">>,
        <<"disappear">>, <<"fade", "away">>, <<"stop", "existing">>,
        <<"not", "be", "here">>, <<"be", "gone">>
    >>

\* the dict's insertion order is the order its items() are visited in
risk_multiplier_categories == <<"substances", "isolation", "finality", "means">>

risk_multipliers ==
    [substances |-> << <<"drunk">>, <<"drinking">>, <<"high">>, <<"pills">>,
                       <<"alcohol">>, <<"drugs">> >>,
     isolation  |-> << <<"alone">>, <<"no", "one">>, <<"nobody">>,
                       <<"by", "myself">>, <<"isolated">> >>,
     finality   |-> << <<"goodbye">>, <<"last">>, <<"final">>, <<"forever">>,
                       <<"never", "again">> >>,
     means      |-> << <<"gun">>, <<"pills">>, <<"bridge">>, <<"rope">>,
                       <<"blade">>, <<"knife">> >>]

(***************************************************************************)
(* RiskLevel and its ordering none < low < medium < high < critical        *)
(***************************************************************************)
RiskLevel == {"none", "low", "medium", "high", "critical"}

Rank(level) ==
    CASE level = "none" -> 0
      [] level = "low" -> 1
      [] level = "medium" -> 2
      [] level = "high" -> 3
      [] level = "critical" -> 4

(***************************************************************************)
(* str.lower() on the words of the vocabulary, and the `in` test           *)
(***************************************************************************)
UpperCaseWords ==
    [w \in {"I", "I've", "END", "IT", "Wish", "Anna"} |->
        CASE w = "I" -> "i"
          [] w = "Anna" -> "anna"
          [] w = "I've" -> "i've"
          [] w = "END" -> "end"
          [] w = "IT" -> "it"
          [] w = "Wish" -> "wish"]

LowerWord(w) == IF w \in DOMAIN UpperCaseWords THEN UpperCaseWords[w] ELSE w

Lower(message) == [i \in 1..Len(message) |-> LowerWord(message[i])]

Contains(text, keyword) ==
    \E i \in 1..(Len(text) - Len(keyword) + 1) :
        \A j \in 1..Len(keyword) : text[i + j - 1] = keyword[j]

\* the index of the first keyword of the list found in the text, 0 if none
FirstMatch(keywords, text) ==
    LET hits == {k \in 1..Len(keywords) : Contains(text, keywords[k])}
    IN  IF hits = {} THEN 0 ELSE CHOOSE k \in hits : \A j \in hits : k <= j

AnyMatch(keywords, text) == \E k \in 1..Len(keywords) : Contains(text, keywords[k])

(***************************************************************************)
(* EnhancedSafetyMonitor.assess_safety, phase by phase.  The locals of the *)
(* pass are one record; every phase maps the record to the next one.       *)
(***************************************************************************)
InitialLocals ==
    [risk_level |-> "none", safety_concerns |-> <<>>, specific_triggers |-> <<>>,
     risk_score |-> 0, multiplier_found |-> FALSE]

\* one tier of phase 1: the first keyword of the tier found in the text sets the level
KeywordTier(st, keywords, text, level, concern, label, weight) ==
    LET k == FirstMatch(keywords, text)
    IN  IF k = 0 THEN st
        ELSE [st EXCEPT !.risk_level = level,
                        !.safety_concerns = Append(@, concern),
                        !.specific_triggers = Append(@, <<label, keywords[k]>>),
                        !.risk_score = @ + weight]

\* phase 1 with the guards between the tiers left out: every tier that matches
\* assigns its level, so a lower tier overwrites a higher one
Phase1KeywordsUnguarded(st, text) ==
    LET s1 == KeywordTier(st, critical_keywords, text, "critical",
                          "immediate_suicide_risk", "critical", 10)
        s2 == KeywordTier(s1, high_risk_keywords, text, "high",
                          "high_suicide_risk", "high", 7)
        s3 == KeywordTier(s2, medium_risk_keywords, text, "medium",
                          "self_harm_risk", "medium", 5)
        s4 == KeywordTier(s3, ideation_keywords, text, "low",
                          "suicidal_ideation", "ideation", 3)
    IN  s4

\* PHASE 1: the four keyword tiers, each guarded by the level reached so far
Phase1Keywords(st, text) ==
    LET s1 == KeywordTier(st, critical_keywords, text, "critical",
                          "immediate_suicide_risk", "critical", 10)
        s2 == IF s1.risk_level # "critical"
              THEN KeywordTier(s1, high_risk_keywords, text, "high",
                               "high_suicide_risk", "high", 7)
              ELSE s1
        s3 == IF s2.risk_level \notin {"critical", "high"}
              THEN KeywordTier(s2, medium_risk_keywords, text, "medium",
                               "self_harm_risk", "medium", 5)
              ELSE s2
        s4 == IF s3.risk_level = "none"
              THEN KeywordTier(s3, ideation_keywords, text, "low",
                               "suicidal_ideation", "ideation", 3)
              ELSE s3
    IN  s4

\* the loop body taking MEDIUM straight to CRITICAL
ApplyMultiplierSkipping(st, category, text) ==
    IF AnyMatch(risk_multipliers[category], text)
    THEN [st EXCEPT !.multiplier_found = TRUE,
                    !.specific_triggers = Append(@, <<"multiplier", category>>),
                    !.risk_score = @ + 2,
                    !.risk_level = IF @ \in {"medium", "high"} THEN "critical"
                                   ELSE @]
    ELSE st

\* the body of the loop over risk_multipliers.items() for one category
ApplyMultiplier(st, category, text) ==
    IF AnyMatch(risk_multipliers[category], text)
    THEN [st EXCEPT !.multiplier_found = TRUE,
                    !.specific_triggers = Append(@, <<"multiplier", category>>),
                    !.risk_score = @ + 2,
                    !.risk_level = IF @ = "medium" THEN "high"
                                   ELSE IF @ = "high" THEN "critical"
                                   ELSE @]
    ELSE st

\* phase 3 with the thresholds included: 0.8 itself counts as high intensity
Phase3IntensityInclusive(st, intensity) ==
    IF intensity >= 80
    THEN [st EXCEPT !.risk_score = @ + 2,
                    !.specific_triggers =
                        Append(@, <<"high_emotional_intensity", intensity>>),
                    !.risk_level =
                        IF @ = "medium" /\ intensity >= 80 THEN "high"
                        ELSE IF @ = "high" /\ intensity >= 90 THEN "critical"
                        ELSE @]
    ELSE st

\* phase 3 assigning HIGH on high intensity instead of escalating to it
Phase3IntensityAssigning(st, intensity) ==
    IF intensity > 80
    THEN [st EXCEPT !.risk_score = @ + 2,
                    !.specific_triggers =
                        Append(@, <<"high_emotional_intensity", intensity>>),
                    !.risk_level =
                        IF intensity > 90 THEN "critical" ELSE "high"]
    ELSE st

\* PHASE 3; intensity in hundredths: 80 is 0.8, 90 is 0.9
Phase3Intensity(st, intensity) ==
    IF intensity > 80
    THEN [st EXCEPT !.risk_score = @ + 2,
                    !.specific_triggers =
                        Append(@, <<"high_emotional_intensity", intensity>>),
                    !.risk_level =
                        IF @ = "medium" /\ intensity > 80 THEN "high"
                        ELSE IF @ = "high" /\ intensity > 90 THEN "critical"
                        ELSE @]
    ELSE st

\* emotional_history[-3:]
LastThree(history) ==
    SubSeq(history, Len(history) - 2, Len(history))

CountState(states, s) == Cardinality({i \in 1..Len(states) : states[i] = s})

Phase4History(st, emotional_history) ==
    IF Len(emotional_history) >= 3
    THEN LET recent == LastThree(emotional_history)
             recent_states == [i \in 1..3 |-> recent[i].state]
             s1 == IF CountState(recent_states, "depressed") >= 2
                   THEN [st EXCEPT
                           !.safety_concerns =
                               Append(@, "persistent_depression_pattern"),
                           !.specific_triggers =
                               Append(@, <<"pattern", "persistent depression">>),
                           !.risk_level = IF @ = "medium" THEN "high" ELSE @]
                   ELSE st
             s2 == IF /\ "anxious" \in {recent_states[1], recent_states[2]}
                      /\ recent_states[3] = "depressed"
                   THEN [s1 EXCEPT
                           !.specific_triggers =
                               Append(@, <<"pattern", "anxiety to depression shift">>),
                           !.risk_score = @ + 1]
                   ELSE s1
         IN  s2
    ELSE st

\* the lookup with the multipliers left out of the HIGH branch
select_intervention_type_without_multipliers(risk_level, concerns, has_multipliers) ==
    IF risk_level = "critical" THEN "emergency_resources"
    ELSE IF risk_level = "high" THEN "crisis_response"
    ELSE IF risk_level = "medium" THEN "direct_concern"
    ELSE IF risk_level = "low" THEN "gentle_check_in"
    ELSE "none"

select_intervention_type(risk_level, concerns, has_multipliers) ==
    IF risk_level = "critical" THEN "emergency_resources"
    ELSE IF risk_level = "high"
         THEN IF has_multipliers THEN "emergency_resources" ELSE "crisis_response"
    ELSE IF risk_level = "medium" THEN "direct_concern"
    ELSE IF risk_level = "low" THEN "gentle_check_in"
    ELSE "none"

\* phase 6 with the score gating the level: a pass that found no keyword but
\* gathered a score of 5 or more is returned medium
BuildAssessmentScoreGated(st, intensity) ==
    LET level == IF st.risk_level = "none" /\ st.risk_score >= 5
                 THEN "medium" ELSE st.risk_level
    IN  [risk_level |-> level,
         risk_score |-> st.risk_score,
         safety_concerns |-> st.safety_concerns,
         specific_triggers |-> st.specific_triggers,
         intervention_type |->
             select_intervention_type(level, st.safety_concerns,
                                      st.multiplier_found),
         requires_intervention |-> level \in {"critical", "high"},
         requires_followup |-> level \in {"medium", "low"},
         emergency_contact_suggested |-> level = "critical",
         emotional_intensity |-> intensity,
         context_multipliers_present |-> st.multiplier_found]

\* phase 6: the dict returned on the normal path
BuildAssessment(st, intensity) ==
    [risk_level |-> st.risk_level,
     risk_score |-> st.risk_score,
     safety_concerns |-> st.safety_concerns,
     specific_triggers |-> st.specific_triggers,
     intervention_type |->
         select_intervention_type(st.risk_level, st.safety_concerns,
                                  st.multiplier_found),
     requires_intervention |-> st.risk_level \in {"critical", "high"},
     requires_followup |-> st.risk_level \in {"medium", "low"},
     emergency_contact_suggested |-> st.risk_level = "critical",
     emotional_intensity |-> intensity,
     context_multipliers_present |-> st.multiplier_found]

\* an except branch that fails open: the dict of a pass that found nothing
FailOpenAssessment ==
    [risk_level |-> "none",
     safety_concerns |-> <<"assessment_error">>,
     intervention_type |-> "none",
     requires_intervention |-> FALSE,
     requires_followup |-> FALSE,
     emergency_contact_suggested |-> FALSE,
     error |-> TRUE]

\* the dict returned by the except branch
FailSafeAssessment ==
    [risk_level |-> "high",
     safety_concerns |-> <<"assessment_error">>,
     intervention_type |-> "crisis_response",
     requires_intervention |-> TRUE,
     requires_followup |-> TRUE,
     emergency_contact_suggested |-> TRUE,
     error |-> TRUE]


(***************************************************************************)
(* MicroMemory (backend/memory/micro_memory.py).  The collection is a      *)
(* sequence of documents; a document's id is its index.  Importance is in  *)
(* tenths, created_at in days.  A decayed importance is the exact fraction *)
(* num/den; ages are multiples of the half-life, so den is a power of two. *)
(***************************************************************************)
HALF_LIFE_DAYS == 14
MIN_IMPORTANCE == 10
DecayFloor == 1

RECURSIVE Pow2(_)
Pow2(k) == IF k = 0 THEN 1 ELSE 2 * Pow2(k - 1)

Frac(n, d) == [num |-> n, den |-> d]

FracGE(a, b) == a.num * b.den >= b.num * a.den

FracGT(a, b) == a.num * b.den > b.num * a.den

FracLT(a, b) == a.num * b.den < b.num * a.den

\* a decay without the minimum
calculate_decayed_importance_unfloored(initial_importance, created_at, now) ==
    Frac(initial_importance, Pow2((now - created_at) \div HALF_LIFE_DAYS))

\* _calculate_decayed_importance: max(i0 * 0.5^(elapsed / 14), 0.1)
calculate_decayed_importance(initial_importance, created_at, now) ==
    LET elapsed_days == now - created_at
        decayed == Frac(initial_importance, Pow2(elapsed_days \div HALF_LIFE_DAYS))
    IN  IF FracGE(decayed, Frac(DecayFloor, 1)) THEN decayed ELSE Frac(DecayFloor, 1)

\* create_micro_memory: the document added to the collection
NewMicroMemory(initial_importance, now) ==
    [importance |-> initial_importance,
     created_at |-> now,
     consolidated |-> FALSE,
     exists |-> TRUE]

\* timestamps have microsecond resolution: within a day the later document is newer
Newer(docs, i, j) ==
    \/ docs[i].created_at > docs[j].created_at
    \/ docs[i].created_at = docs[j].created_at /\ i > j

\* the ids of a set of documents, newest first (order_by created_at DESCENDING)
NewestFirst(docs, ids) ==
    [p \in 1..Cardinality(ids) |->
        CHOOSE i \in ids : Cardinality({j \in ids : Newer(docs, j, i)}) = p - 1]

Prefix(seq, n) == SubSeq(seq, 1, IF n < Len(seq) THEN n ELSE Len(seq))

UnconsolidatedIds(docs) ==
    {i \in 1..Len(docs) : docs[i].exists /\ ~docs[i].consolidated}

\* get_unconsolidated_count
get_unconsolidated_count(docs) == Cardinality(UnconsolidatedIds(docs))

\* list.sort(key=current_importance, reverse=True): stable, descending
SortByCurrentImportance(memories) ==
    LET n == Len(memories)
        Before(i, j) ==
            \/ FracGT(memories[i].current_importance, memories[j].current_importance)
            \/ /\ ~FracGT(memories[j].current_importance, memories[i].current_importance)
               /\ i < j
    IN  [p \in 1..n |->
            memories[CHOOSE i \in 1..n :
                        Cardinality({j \in 1..n : j # i /\ Before(j, i)}) = p - 1]]

\* the dict built for one document of the query stream
MemoryDict(docs, i, now, apply_decay) ==
    [memory_id |-> i,
     importance |-> docs[i].importance,
     created_at |-> docs[i].created_at,
     consolidated |-> docs[i].consolidated,
     current_importance |->
         IF apply_decay
         THEN calculate_decayed_importance(docs[i].importance, docs[i].created_at, now)
         ELSE Frac(docs[i].importance, 1)]

\* the documents of the collection, whatever their consolidated flag
ExistingIds(docs) == {i \in 1..Len(docs) : docs[i].exists}

\* a query without the filter on the consolidated flag
RecentQueryIdsUnfiltered(docs) == ExistingIds(docs)

\* the documents the query of get_recent_micro_memories selects:
\* where('consolidated', '==', False)
RecentQueryIds(docs) == UnconsolidatedIds(docs)

get_recent_micro_memories(docs, now, limit, min_importance, apply_decay) ==
    LET query == Prefix(NewestFirst(docs, RecentQueryIds(docs)), limit * 2)
        stream == [p \in 1..Len(query) |-> MemoryDict(docs, query[p], now, apply_decay)]
        IsKept(m) == FracGE(m.current_importance, Frac(min_importance, 1))
        memories == SelectSeq(stream, IsKept)
    IN  Prefix(SortByCurrentImportance(memories), limit)

\* a read that writes the importance it computed back to the documents it read
DocsWrittenBackByRead(docs, now, limit, apply_decay) ==
    LET read == {get_recent_micro_memories(docs, now, limit, 0, apply_decay)[p] :
                    p \in 1..Len(get_recent_micro_memories(docs, now, limit, 0,
                                                           apply_decay))}
    IN  [i \in 1..Len(docs) |->
            IF \E m \in read : m.memory_id = i
            THEN [docs[i] EXCEPT !.importance =
                     (CHOOSE m \in read : m.memory_id = i).current_importance.num
                         \div (CHOOSE m \in read : m.memory_id = i).current_importance.den]
            ELSE docs[i]]

\* the collection after get_recent_micro_memories: doc.to_dict() is a copy, the
\* decayed importance is put in the copy and nothing is written to the store
DocsAfterRead(docs, now, limit, apply_decay) == docs

\* an update that toggles the flag instead of setting it
ConsolidatedToggle(doc) == [doc EXCEPT !.consolidated = ~@]

\* the update mark_as_consolidated writes to one document; it also writes
\* consolidated_at, a field no operation reads
ConsolidatedUpdate(doc) == [doc EXCEPT !.consolidated = TRUE]

\* mark_as_consolidated(memory_id); write_ok is whether the store accepts the update
mark_as_consolidated(docs, memory_id, write_ok) ==
    IF write_ok /\ memory_id \in 1..Len(docs) /\ docs[memory_id].exists
    THEN [docs EXCEPT ![memory_id] = ConsolidatedUpdate(@)]
    ELSE docs

\* a cleanup query that selects by age alone
CleanupQueryIdsByAge(docs, now, days_threshold) ==
    {i \in 1..Len(docs) :
        /\ docs[i].exists
        /\ docs[i].created_at < now - days_threshold}

\* the documents the query of cleanup_old_memories selects (at most 100 of them,
\* more than any collection here holds)
CleanupQueryIds(docs, now, days_threshold) ==
    {i \in 1..Len(docs) :
        /\ docs[i].exists
        /\ docs[i].created_at < now - days_threshold
        /\ docs[i].consolidated}

\* the documents cleanup_old_memories puts in its delete batch
CleanupBatch(docs, now, days_threshold) ==
    {i \in CleanupQueryIds(docs, now, days_threshold) :
        FracLT(calculate_decayed_importance(docs[i].importance, docs[i].created_at, now),
               Frac(MIN_IMPORTANCE, 1))}

\* cleanup_old_memories(days_threshold); commit_ok is whether batch.commit() succeeds
cleanup_old_memories(docs, now, days_threshold, commit_ok) ==
    LET batch == CleanupBatch(docs, now, days_threshold)
    IN  IF commit_ok
        THEN [i \in 1..Len(docs) |->
                 IF i \in batch THEN [docs[i] EXCEPT !.exists = FALSE] ELSE docs[i]]
        ELSE docs

(***************************************************************************)
(* MemoryConsolidator (backend/memory/memory_consolidator.py)              *)
(***************************************************************************)
CONSOLIDATION_THRESHOLD == 10
ConsolidationMinImportance == 20
SuperMemoryImportance == 70

check_consolidation_ready(docs) ==
    get_unconsolidated_count(docs) >= CONSOLIDATION_THRESHOLD

\* _create_super_memory: the document added to the super memory collection
NewSuperMemory(source_memories, now) ==
    [source_memory_ids |-> [p \in 1..Len(source_memories) |-> source_memories[p].memory_id],
     source_memory_count |-> Len(source_memories),
     date_range |-> [start |-> source_memories[Len(source_memories)].created_at,
                     end |-> source_memories[1].created_at],
     created_at |-> now,
     importance |-> SuperMemoryImportance]

\* the loop over memories_to_consolidate calling mark_as_consolidated;
\* mark_fails is the set of ids whose update the store rejects
RECURSIVE MarkAll(_, _, _, _)
MarkAll(docs, memories, n, mark_fails) ==
    IF n = 0 THEN docs
    ELSE mark_as_consolidated(MarkAll(docs, memories, n - 1, mark_fails),
                              memories[n].memory_id,
                              memories[n].memory_id \notin mark_fails)

SelectedIds(memories) == [p \in 1..Len(memories) |-> memories[p].memory_id]

\* a run of consolidate_memories that returns None at `stage`
RunReturnsNone(docs, supers, memories, stage) ==
    [micro |-> docs, super |-> supers, id |-> 0, stage |-> stage,
     selected |-> SelectedIds(memories), rejected |-> {}]

\* a tail that marks the source micro memories before the super memory is written
CreateAndMarkEagerly(docs, supers, now, memories, env) ==
    IF ~env.add_ok
    THEN [micro |-> MarkAll(docs, memories, Len(memories), env.mark_fails),
          super |-> supers, id |-> 0, stage |-> "write_failed",
          selected |-> SelectedIds(memories),
          rejected |-> {memories[p].memory_id : p \in 1..Len(memories)}
                           \cap env.mark_fails]
    ELSE [micro |-> MarkAll(docs, memories, Len(memories), env.mark_fails),
          super |-> Append(supers, NewSuperMemory(memories, now)),
          id |-> Len(supers) + 1,
          stage |-> "done",
          selected |-> SelectedIds(memories),
          rejected |-> {memories[p].memory_id : p \in 1..Len(memories)}
                           \cap env.mark_fails]

\* the tail of consolidate_memories, once the summary has been generated:
\* create the super memory, then mark the source micro memories
CreateAndMark(docs, supers, now, memories, env) ==
    IF ~env.add_ok THEN RunReturnsNone(docs, supers, memories, "write_failed")
    ELSE [micro |-> MarkAll(docs, memories, Len(memories), env.mark_fails),
          super |-> Append(supers, NewSuperMemory(memories, now)),
          id |-> Len(supers) + 1,
          stage |-> "done",
          selected |-> SelectedIds(memories),
          rejected |-> {memories[p].memory_id : p \in 1..Len(memories)}
                           \cap env.mark_fails]

\* a selection that filters on the decayed importance
memories_to_consolidate_decayed(docs, now) ==
    get_recent_micro_memories(docs, now, CONSOLIDATION_THRESHOLD,
                              ConsolidationMinImportance, TRUE)

\* the batch consolidate_memories selects: limit=CONSOLIDATION_THRESHOLD,
\* min_importance=2.0, apply_decay=False
memories_to_consolidate(docs, now) ==
    get_recent_micro_memories(docs, now, CONSOLIDATION_THRESHOLD,
                              ConsolidationMinImportance, FALSE)

\* consolidate_memories once the batch is selected: the length check, the
\* summarization, the super memory, the marking
ConsolidateSelected(docs, supers, now, memories, env) ==
    IF Len(memories) < CONSOLIDATION_THRESHOLD
    THEN RunReturnsNone(docs, supers, memories, "not_enough")
    ELSE IF ~env.llm_ok
    THEN RunReturnsNone(docs, supers, memories, "summarize_failed")
    ELSE CreateAndMark(docs, supers, now, memories, env)

\* consolidate_memories: env.llm_ok is whether the summarization call returns,
\* env.add_ok whether the super memory write succeeds, env.mark_fails the ids
\* whose update the store rejects.  The result is the two collections after the
\* run, the id returned (0 is None) and where the run ended.
consolidate_memories(docs, supers, now, env) ==
    ConsolidateSelected(docs, supers, now, memories_to_consolidate(docs, now), env)

(***************************************************************************)
(* MemoryManager (backend/memory/memory_manager.py): what end_session      *)
(* derives from the buffered messages.  Intensities are hundredths.        *)
(***************************************************************************)
NegativeWords == << <<"sad">>, <<"upset">>, <<"depressed">>, <<"down">> >>
PositiveWords == << <<"happy">>, <<"great">>, <<"excited">>, <<"wonderful">> >>
AnxiousWords == << <<"worried">>, <<"anxious">>, <<"nervous">>, <<"scared">> >>

\* the emotion and intensity one user message contributes, if any
MessageEmotion(content) ==
    LET content_lower == Lower(content)
    IN  IF AnyMatch(NegativeWords, content_lower)
        THEN <<[emotion |-> "negative", intensity |-> 70]>>
        ELSE IF AnyMatch(PositiveWords, content_lower)
        THEN <<[emotion |-> "positive", intensity |-> 60]>>
        ELSE IF AnyMatch(AnxiousWords, content_lower)
        THEN <<[emotion |-> "anxious", intensity |-> 70]>>
        ELSE <<>>

RECURSIVE SessionEmotions(_, _)
SessionEmotions(messages, n) ==
    IF n = 0 THEN <<>>
    ELSE SessionEmotions(messages, n - 1) \o
         (IF messages[n].role = "user" THEN MessageEmotion(messages[n].content) ELSE <<>>)

RECURSIVE SumIntensity(_, _)
SumIntensity(found, n) ==
    IF n = 0 THEN 0 ELSE SumIntensity(found, n - 1) + found[n].intensity

\* _extract_session_emotions; emotional_intensity is the fraction sum/count
extract_session_emotions(messages) ==
    LET found == SessionEmotions(messages, Len(messages))
    IN  IF Len(found) > 0
        THEN [emotional_intensity |-> Frac(SumIntensity(found, Len(found)), Len(found)),
              emotions_detected |-> {found[i].emotion : i \in 1..Len(found)}]
        ELSE [emotional_intensity |-> Frac(0, 1), emotions_detected |-> {}]

topic_names ==
    <<"work", "relationships", "health", "hobbies", "emotions", "pets", "goals", "values">>

topic_map ==
    [work |-> << <<"work">>, <<"job">>, <<"career">>, <<"office">>, <<"project">>,
                 <<"meeting">> >>,
     relationships |-> << <<"friend">>, <<"family">>, <<"partner">>, <<"relationship">>,
                          <<"dating">> >>,
     health |-> << <<"health">>, <<"doctor">>, <<"medicine">>, <<"exercise">>,
                   <<"sleep">> >>,
     hobbies |-> << <<"hobby">>, <<"game">>, <<"movie">>, <<"book">>, <<"music">>,
                    <<"sport">> >>,
     emotions |-> << <<"feel">>, <<"emotion">>, <<"mood">>, <<"anxiety">>,
                     <<"depression">> >>,
     pets |-> << <<"dog">>, <<"cat">>, <<"pet">>, <<"animal">> >>,
     goals |-> << <<"goal">>, <<"plan">>, <<"dream">>, <<"ambition">>,
                  <<"aspiration">> >>,
     values |-> << <<"value">>, <<"important">>, <<"matter">>, <<"meaningful">>,
                   <<"purpose">> >>]

RECURSIVE UserText(_, _)
UserText(messages, n) ==
    IF n = 0 THEN <<>>
    ELSE UserText(messages, n - 1) \o
         (IF messages[n].role = "user" THEN Lower(messages[n].content) ELSE <<>>)

\* _extract_session_topics
extract_session_topics(messages) ==
    LET all_text == UserText(messages, Len(messages))
        IsTopic(t) == AnyMatch(topic_map[t], all_text)
    IN  SelectSeq(topic_names, IsTopic)

\* _calculate_session_importance, in tenths
\* a session importance that starts from a base of 1.0
calculate_session_importance_low_base(emotional_context, topics, message_count) ==
    LET base == 10
        emotional == IF FracGT(emotional_context.emotional_intensity, Frac(50, 1))
                     THEN 20 ELSE 0
        values == IF \E i \in 1..Len(topics) : topics[i] = "values" THEN 15 ELSE 0
        breadth == IF Len(topics) * 5 < 20 THEN Len(topics) * 5 ELSE 20
        long == IF message_count > 20 THEN 10 ELSE 0
        importance == base + emotional + values + breadth + long
    IN  IF importance < 100 THEN importance ELSE 100

calculate_session_importance(emotional_context, topics, message_count) ==
    LET base == 50
        emotional == IF FracGT(emotional_context.emotional_intensity, Frac(50, 1))
                     THEN 20 ELSE 0
        values == IF \E i \in 1..Len(topics) : topics[i] = "values" THEN 15 ELSE 0
        breadth == IF Len(topics) * 5 < 20 THEN Len(topics) * 5 ELSE 20
        long == IF message_count > 20 THEN 10 ELSE 0
        importance == base + emotional + values + breadth + long
    IN  IF importance < 100 THEN importance ELSE 100

(***************************************************************************)
(* PersistentFacts (backend/memory/persistent_facts.py).  self.facts is a  *)
(* dict of dicts: a function from the categories present to the set of     *)
(* entries of the category, an entry being a key with its fact data.  The  *)
(* durable facts document has the same shape.                              *)
(***************************************************************************)
NoFacts == [category \in {} |-> {}]

\* self.facts.get(category, {})
get_category(facts, category) ==
    IF category \in DOMAIN facts THEN facts[category] ELSE {}

\* the entries stored for (category, key)
FactEntries(facts, category, key) ==
    {f \in get_category(facts, category) : f.key = key}

\* the fact data set_fact stores; it also holds source, created_at and
\* last_updated (both utcnow()), fields no operation reads
NewFact(key, value, source, now) ==
    [key |-> key, value |-> value]

\* an assignment that adds the entry and leaves an earlier entry of the key in place
AssignFactKeepingEarlier(facts, category, key, entry) ==
    [c \in DOMAIN facts \cup {category} |->
        IF c = category THEN get_category(facts, c) \cup {entry} ELSE facts[c]]

\* an assignment that replaces the dict of the whole category
AssignFactReplacingCategory(facts, category, key, entry) ==
    [c \in DOMAIN facts \cup {category} |->
        IF c = category THEN {entry} ELSE facts[c]]

\* if category not in self.facts: self.facts[category] = {}
\* self.facts[category][key] = {...}
AssignFact(facts, category, key, entry) ==
    [c \in DOMAIN facts \cup {category} |->
        IF c = category
        THEN {f \in get_category(facts, c) : f.key # key} \cup {entry}
        ELSE facts[c]]

\* del self.facts[category][key]: the category stays, possibly empty
DeleteEntry(facts, category, key) ==
    [c \in DOMAIN facts |->
        IF c = category THEN {f \in facts[c] : f.key # key} ELSE facts[c]]

\* _save_facts: doc_ref.set({'facts': self.facts, ...}, merge=True).  A merge
\* writes the leaves of the data: every fact written replaces the stored one,
\* an empty category replaces the stored category, and a stored fact that the
\* data does not name is kept.
save_facts(doc, facts) ==
    [c \in DOMAIN doc \cup DOMAIN facts |->
        IF c \notin DOMAIN facts THEN doc[c]
        ELSE IF facts[c] = {} THEN {}
        ELSE {d \in get_category(doc, c) : \A f \in facts[c] : f.key # d.key}
                 \cup facts[c]]

\* set_fact(category, key, value, source): the dict is assigned before the
\* save; save_ok is whether the durable write succeeds.  The result is the
\* dict and the document after the call and the value returned.
set_fact(facts, doc, category, key, value, source, now, save_ok) ==
    LET assigned == AssignFact(facts, category, key, NewFact(key, value, source, now))
    IN  [facts |-> assigned,
         doc |-> IF save_ok THEN save_facts(doc, assigned) ELSE doc,
         returned |-> save_ok]

\* get_fact(category, key): <<>> is None
get_fact(facts, category, key) ==
    IF FactEntries(facts, category, key) # {}
    THEN <<(CHOOSE f \in FactEntries(facts, category, key) : TRUE).value>>
    ELSE <<>>

\* delete_fact(category, key)
delete_fact(facts, doc, category, key, save_ok) ==
    IF FactEntries(facts, category, key) # {}
    THEN LET deleted == DeleteEntry(facts, category, key)
         IN  [facts |-> deleted,
              doc |-> IF save_ok THEN save_facts(doc, deleted) ELSE doc,
              returned |-> save_ok]
    ELSE [facts |-> facts, doc |-> doc, returned |-> FALSE]

\* _load_facts: the facts of the document, {} when the read fails
load_facts(doc, load_ok) == IF load_ok THEN doc ELSE NoFacts

\* str.capitalize() on the words of the vocabulary
Capitalize(w) == IF w = "bea" THEN "Bea" ELSE w

name_patterns ==
    << <<"my", "name", "is">>, <<"i'm", "called">>, <<"call", "me">>, <<"i", "am">>,
       <<"name's">>, <<"i'm">> >>

\* extract_facts_from_message, the name block: the word after the first
\* occurrence (str.index) of the first name pattern found becomes
\* identity.name.  The messages drawn hold no pattern of the other blocks of
\* the method, and every pattern found is followed by a word.  The result is
\* the sequence of (category, key, value) the method sets.
extracted_facts(user_message) ==
    LET message_lower == Lower(user_message)
        k == FirstMatch(name_patterns, message_lower)
        pattern == name_patterns[k]
        at == {i \in 1..(Len(message_lower) - Len(pattern)) :
                  \A j \in 1..Len(pattern) : message_lower[i + j - 1] = pattern[j]}
        start_idx == (CHOOSE i \in at : \A j \in at : i <= j) + Len(pattern)
    IN  IF k = 0 THEN <<>>
        ELSE << <<"identity", "name", Capitalize(user_message[start_idx])>> >>

\* extract_facts_from_message(user_message, ai_response): one call of set_fact,
\* with source "conversation", for the fact found; keys are the keys set
extract_facts_from_message(facts, doc, user_message, now, save_ok) ==
    LET found == extracted_facts(user_message)
    IN  IF found = <<>> THEN [facts |-> facts, doc |-> doc, keys |-> {}]
        ELSE LET call == set_fact(facts, doc, found[1][1], found[1][2], found[1][3],
                                  "conversation", now, save_ok)
             IN  [facts |-> call.facts, doc |-> call.doc,
                  keys |-> {<<found[1][1], found[1][2]>>}]

\* _extract_facts_from_session: every user message of the buffer, in order
RECURSIVE extract_facts_from_session(_, _, _, _, _, _)
extract_facts_from_session(facts, doc, messages, n, now, save_ok) ==
    IF n = 0 THEN [facts |-> facts, doc |-> doc, keys |-> {}]
    ELSE LET before == extract_facts_from_session(facts, doc, messages, n - 1,
                                                  now, save_ok)
         IN  IF messages[n].role = "user"
             THEN LET call == extract_facts_from_message(
                                  before.facts, before.doc, messages[n].content,
                                  now, save_ok)
                  IN  [call EXCEPT !.keys = @ \cup before.keys]
             ELSE before

(***************************************************************************)
(* Inputs of one assessment: messages are concatenations of fragments,     *)
(* intensities are hundredths, histories are EmotionTracker snapshots      *)
(***************************************************************************)
Fragments ==
    { <<"I", "want", "to", "end", "my", "life", "tonight">>,
      <<"I've", "been", "a", "bit", "stressed", "about", "work">>,
      <<"i", "feel", "worthless">>,
      <<"i", "can't", "cope">>,
      <<"Wish", "I", "was", "dead">>,
      <<"drinking", "alone">>,
      <<"rope">>,
      <<"pills">> }

RECURSIVE MessagesUpTo(_)
MessagesUpTo(n) ==
    IF n = 0 THEN {<<>>}
    ELSE LET shorter == MessagesUpTo(n - 1)
         IN  shorter \cup {m \o f : m \in shorter, f \in Fragments}

Messages == MessagesUpTo(MaxFragments)

Intensities == {30, 80, 90, 95}

EmotionalStates == {"neutral", "anxious", "depressed"}

Histories ==
    UNION {[1..n -> [state : EmotionalStates]] : n \in 0..MaxHistory}

\* deque(maxlen=n).append
DequeAppend(q, x, maxlen) ==
    IF Len(q) >= maxlen THEN Append(Tail(q), x) ELSE Append(q, x)

SafetyHistoryMaxLen == 20

VARIABLES
    message,            \* argument of assess_safety
    emotional_context,  \* argument: [emotional_intensity]
    emotional_history,  \* argument: sequence of snapshots [state]
    assess_pc,          \* the statement assess_safety is at
    category_index,     \* position of the loop over risk_multipliers.items()
    locals,             \* risk_level, safety_concerns, specific_triggers, ...
    raised,             \* whether the try block raised
    assessment,         \* the dict returned
    safety_history      \* EnhancedSafetyMonitor.safety_history

safetyVars ==
    <<message, emotional_context, emotional_history, assess_pc, category_index,
      locals, raised, assessment, safety_history>>

VARIABLES
    micro,                     \* the micro_memories_<user> collection
    super_memories,            \* the super_memories_<user> collection
    now,                       \* datetime.utcnow(), in days
    current_session_messages,  \* MemoryManager.current_session_messages
    outcome,                   \* what the last call did and returned
    facts,                     \* PersistentFacts.facts, the dict in memory
    facts_doc                  \* the facts of the user_facts document

factVars == <<facts, facts_doc>>

memoryVars ==
    <<micro, super_memories, now, current_session_messages, outcome, factVars>>

VARIABLES
    current_mode,          \* CaelOrchestrator.current_mode
    conversation_history,  \* CaelOrchestrator.conversation_history
    emotion_history,       \* EmotionTracker.emotion_history
    reply                  \* what the last call of the orchestrator returned

orchVars == <<current_mode, conversation_history, emotion_history, reply>>

VARIABLES
    user_orchestrators,  \* app.user_orchestrators: user id -> instance (0 is absent)
    instances,           \* every CaelOrchestrator constructed, in order of construction
    requests,            \* the /index requests in flight, one per serving thread
    shutdown,            \* the position of shutdown_handler
    persisted,           \* user id -> micro memories written at the end of sessions
    summary_call         \* the summarization call of an end_session in progress

registryVars == <<user_orchestrators, instances, requests, shutdown, persisted>>

hostVars == <<registryVars, summary_call>>

appVars == <<orchVars, hostVars>>

vars == <<safetyVars, memoryVars, appVars>>

arguments == <<message, emotional_context, emotional_history>>

text == Lower(message)

intensity == emotional_context.emotional_intensity

\* what the last call did: the value it returned (0 is None), where it ended,
\* the unconsolidated count and the number of eligible memories when it checked,
\* the batch it selected, the updates the store rejected, the id of the super
\* memory it created, the memories it returned, the documents it deleted, the
\* (category, key) pairs it assigned or deleted in self.facts and the fact it
\* returned: the value it was given, the value get_fact returned before the call
\* and the value it returned (<<>> is None); for a read, the limit and the
\* importance threshold (in tenths) its caller asked for, and in `stage` whether
\* the importances it returned are decayed or raw; for a cleanup, the age
\* threshold in days
NoOutcome ==
    [op |-> "none", result |-> 0, stage |-> "none", count_at_check |-> 0,
     eligible_at_check |-> 0, selected |-> <<>>, rejected |-> {}, super_id |-> 0,
     returned |-> <<>>, returned_super |-> <<>>, deleted |-> {},
     fact_keys |-> {}, fact_given |-> <<>>, fact_before |-> <<>>, fact |-> <<>>,
     limit |-> 0, min_importance |-> 0, days_threshold |-> 0]

\* no call of the orchestrator has returned
NoReply == [op |-> "none"]

Users == 1..MaxUsers

RequestSlots == 1..MaxRequests

NoRequest == [pc |-> "idle", user_id |-> 0, orchestrator |-> 0]

NoShutdown == [pc |-> "idle", pending |-> {}, snapshot |-> {}, visits |-> {}]

\* the module as imported: an empty registry, no request, no handler running
RegistryIdle ==
    /\ user_orchestrators = [u \in Users |-> 0]
    /\ instances = <<>>
    /\ requests = [r \in RequestSlots |-> NoRequest]
    /\ shutdown = NoShutdown
    /\ persisted = [u \in Users |-> 0]

\* no orchestrator is part of a run of the assessor or of the memory alone
AppIdle ==
    /\ current_mode = "normal"
    /\ conversation_history = <<>>
    /\ emotion_history = <<>>
    /\ reply = NoReply
    /\ RegistryIdle
    /\ summary_call = "none"

\* no memory manager is part of a run of the assessor alone
MemoryIdle ==
    /\ micro = <<>>
    /\ super_memories = <<>>
    /\ now = 0
    /\ current_session_messages = <<>>
    /\ outcome = NoOutcome
    /\ facts = NoFacts
    /\ facts_doc = NoFacts

SafetyInit ==
    /\ message \in Messages
    /\ emotional_context \in [emotional_intensity : Intensities]
    /\ emotional_history \in Histories
    /\ assess_pc = "phase1"
    /\ category_index = 1
    /\ locals = InitialLocals
    /\ raised = FALSE
    /\ assessment = [risk_level |-> "pending"]
    /\ safety_history = <<>>
    /\ MemoryIdle
    /\ AppIdle

\* PHASE 1: direct keyword matching
Phase1 ==
    /\ assess_pc = "phase1"
    /\ locals' = Phase1Keywords(locals, text)
    /\ assess_pc' = "phase2"
    /\ UNCHANGED <<arguments, category_index, raised, assessment, safety_history>>
    /\ UNCHANGED <<memoryVars, appVars>>

\* PHASE 2: one iteration of the loop over the multiplier categories
Phase2 ==
    /\ assess_pc = "phase2"
    /\ locals' = ApplyMultiplier(locals, risk_multiplier_categories[category_index], text)
    /\ IF category_index < Len(risk_multiplier_categories)
       THEN /\ category_index' = category_index + 1
            /\ assess_pc' = "phase2"
       ELSE /\ category_index' = category_index
            /\ assess_pc' = "phase3"
    /\ UNCHANGED <<arguments, raised, assessment, safety_history>>
    /\ UNCHANGED <<memoryVars, appVars>>

\* PHASE 3: emotional intensity amplification
Phase3 ==
    /\ assess_pc = "phase3"
    /\ locals' = Phase3Intensity(locals, intensity)
    /\ assess_pc' = "phase4"
    /\ UNCHANGED <<arguments, category_index, raised, assessment, safety_history>>
    /\ UNCHANGED <<memoryVars, appVars>>

\* PHASE 4: pattern detection from history
Phase4 ==
    /\ assess_pc = "phase4"
    /\ locals' = Phase4History(locals, emotional_history)
    /\ assess_pc' = "phase5"
    /\ UNCHANGED <<arguments, category_index, raised, assessment, safety_history>>
    /\ UNCHANGED <<memoryVars, appVars>>

\* PHASES 5 and 6: intervention type, the assessment, the history record, return
BuildAndReturn ==
    /\ assess_pc = "phase5"
    /\ assessment' = BuildAssessment(locals, intensity)
    /\ safety_history' =
           DequeAppend(safety_history,
                       [risk_level |-> locals.risk_level,
                        concerns |-> locals.safety_concerns,
                        triggers |-> locals.specific_triggers],
                       SafetyHistoryMaxLen)
    /\ assess_pc' = "returned"
    /\ UNCHANGED <<arguments, category_index, locals, raised>>
    /\ UNCHANGED <<memoryVars, appVars>>

SafetyNext ==
    \/ Phase1
    \/ Phase2
    \/ Phase3
    \/ Phase4
    \/ BuildAndReturn

\* assess_safety on every input drawn, when no statement of the pass raises
SpecSafety == SafetyInit /\ [][SafetyNext]_vars

\* except Exception: the statement the pass is at raises and the fail-safe dict
\* is returned.  A raise after the assessment is built (the summary log line)
\* comes after the append to safety_history.
RaiseInPass ==
    /\ assess_pc \in {"phase1", "phase2", "phase3", "phase4", "phase5"}
    /\ assessment' = FailSafeAssessment
    /\ raised' = TRUE
    /\ assess_pc' = "returned"
    /\ \E appended \in BOOLEAN :
           safety_history' =
               IF appended /\ assess_pc = "phase5"
               THEN DequeAppend(safety_history,
                                [risk_level |-> locals.risk_level,
                                 concerns |-> locals.safety_concerns,
                                 triggers |-> locals.specific_triggers],
                                SafetyHistoryMaxLen)
               ELSE safety_history
    /\ UNCHANGED <<arguments, category_index, locals>>
    /\ UNCHANGED <<memoryVars, appVars>>

SafetyFaultyNext ==
    \/ SafetyNext
    \/ RaiseInPass

\* assess_safety when any statement of the pass may raise
SpecSafetyFaulty == SafetyInit /\ [][SafetyFaultyNext]_vars

\* the pass has returned the dict in `assessment`
Returned == assess_pc = "returned"

(***************************************************************************)
(* Properties of the assessor                                              *)
(***************************************************************************)
\* C1: a message that contains a critical-tier keyword is assessed critical,
\* with intervention emergency_resources and requires_intervention true,
\* whatever lower-tier keywords, multipliers, intensity and history come with it
C1_CriticalKeywordIsCritical ==
    (Returned /\ AnyMatch(critical_keywords, text)) =>
        /\ assessment.risk_level = "critical"
        /\ assessment.intervention_type = "emergency_resources"
        /\ assessment.requires_intervention = TRUE

\* a critical keyword together with a medium-tier keyword, extreme intensity
\* and a history of three snapshots has been assessed
C1_Witness ==
    /\ Returned
    /\ AnyMatch(critical_keywords, text)
    /\ AnyMatch(medium_risk_keywords, text)
    /\ intensity > 90
    /\ Len(emotional_history) >= 3
    /\ assessment.risk_level = "critical"

\* C2: a pass that raised returns high / crisis_response / requires_intervention
\* true, never none and never requires_intervention false
C2_FailSafeOnException ==
    (Returned /\ raised) =>
        /\ assessment.risk_level = "high"
        /\ assessment.intervention_type = "crisis_response"
        /\ assessment.requires_intervention = TRUE

\* a pass over a message without any keyword raised and returned the fail-safe dict
C2_Witness ==
    /\ Returned
    /\ raised
    /\ Phase1Keywords(InitialLocals, text).risk_level = "none"
    /\ assessment.requires_intervention = TRUE

\* C3: no step of a pass lowers the risk level in the order
\* none < low < medium < high < critical
C3_RiskLevelMonotone ==
    [][Rank(locals'.risk_level) >= Rank(locals.risk_level)]_vars

\* a pass that started at medium in phase 1 has been escalated to critical
C3_Witness ==
    /\ Returned
    /\ Phase1Keywords(InitialLocals, text).risk_level = "medium"
    /\ locals.risk_level = "critical"
    /\ assessment.risk_level = "critical"

(***************************************************************************)
(* The memory subsystem as a state machine: the calls of MemoryManager,    *)
(* and the passing of time                                                 *)
(***************************************************************************)
\* one step of the clock, in days: three half-lives
TickDays == 3 * HALF_LIFE_DAYS

SessionContents == { <<"hello">>, <<"i", "feel", "sad">> }

AssistantReply == <<"reply">>

\* the positions of the batch whose update the store may reject
MarkFailPositions == {1, CONSOLIDATION_THRESHOLD}

\* what the collaborators do during one run of consolidate_memories that has
\* selected `memories`: the summarizer answers or not, the store takes the
\* super memory or not, the store rejects some of the updates
Environments(memories) ==
    {[llm_ok |-> l, add_ok |-> a, mark_fails |->
         {memories[p].memory_id : p \in f \cap (1..Len(memories))}] :
        l \in BOOLEAN, a \in BOOLEAN,
        f \in {g \in SUBSET MarkFailPositions : Cardinality(g) <= MaxMarkFailures}}

\* a run in which a collaborator is not reached is a run in which it does not fail
Relevant(env, run) ==
    /\ run.stage \in {"not_enough"} => env.llm_ok
    /\ run.stage \in {"not_enough", "summarize_failed"} => env.add_ok
    /\ env.mark_fails = run.rejected

\* the unconsolidated memories whose raw importance passes the consolidation filter
EligibleIds(docs) ==
    {i \in UnconsolidatedIds(docs) : docs[i].importance >= ConsolidationMinImportance}

\* the memories earlier sessions have left in the store
Preloaded(n) == [i \in 1..n |-> NewMicroMemory(50, 0)]

safetyIdle ==
    /\ message = <<>>
    /\ emotional_context = [emotional_intensity |-> 0]
    /\ emotional_history = <<>>
    /\ assess_pc = "idle"
    /\ category_index = 1
    /\ locals = InitialLocals
    /\ raised = FALSE
    /\ assessment = [risk_level |-> "pending"]
    /\ safety_history = <<>>

\* the store holds the memories of earlier sessions when the manager is constructed
MemoryInit ==
    /\ micro = Preloaded(InitialMemories)
    /\ super_memories = <<>>
    /\ now = 0
    /\ current_session_messages = <<>>
    /\ outcome = NoOutcome
    /\ facts = NoFacts
    /\ facts_doc = NoFacts
    /\ safetyIdle
    /\ AppIdle

\* add_message_to_session(role, content); process_message adds the user message
\* and, when the reply has been generated, the assistant message
AddMessageToSession(role, content) ==
    /\ Len(current_session_messages) < MaxSessionMessages
    /\ Len(micro) < MaxMicro
    /\ role = "assistant" =>
           /\ current_session_messages # <<>>
           /\ current_session_messages[Len(current_session_messages)].role = "user"
    /\ current_session_messages' =
           Append(current_session_messages, [role |-> role, content |-> content])
    /\ outcome' = NoOutcome
    /\ UNCHANGED <<micro, super_memories, now>>
    /\ UNCHANGED <<safetyVars, factVars, appVars>>

\* what a consolidation run leaves in `outcome`
RunOutcome(op, result, docs, run) ==
    [NoOutcome EXCEPT !.op = op, !.result = result, !.stage = run.stage,
                      !.count_at_check = get_unconsolidated_count(docs),
                      !.eligible_at_check = Cardinality(EligibleIds(docs)),
                      !.selected = run.selected, !.rejected = run.rejected,
                      !.super_id = run.id]

\* an end of end_session in which a failed consolidation run propagates: the
\* buffer is kept and no id is returned
EndSessionCreatedRaising(created, micro_memory_id, extracted) ==
    /\ facts' = extracted.facts
    /\ facts_doc' = extracted.doc
    /\ IF check_consolidation_ready(created)
       THEN \E memories \in {memories_to_consolidate(created, now)} :
            \E env \in Environments(memories) :
            \E run \in {ConsolidateSelected(created, super_memories, now,
                                             memories, env)} :
                /\ Relevant(env, run)
                /\ micro' = run.micro
                /\ super_memories' = run.super
                /\ outcome' =
                       [RunOutcome("end_session",
                                   IF run.id = 0 THEN 0 ELSE micro_memory_id,
                                   created, run)
                           EXCEPT !.fact_keys = extracted.keys]
                /\ current_session_messages' =
                       IF run.id = 0 THEN current_session_messages ELSE <<>>
       ELSE /\ micro' = created
            /\ super_memories' = super_memories
            /\ outcome' = [NoOutcome EXCEPT
                               !.op = "end_session",
                               !.result = micro_memory_id,
                               !.stage = "below_threshold",
                               !.count_at_check = get_unconsolidated_count(created),
                               !.eligible_at_check = Cardinality(EligibleIds(created)),
                               !.fact_keys = extracted.keys]
            /\ current_session_messages' = <<>>
    /\ UNCHANGED now
    /\ UNCHANGED safetyVars

\* an end of end_session that leaves the session buffer as it was
EndSessionCreatedKeepingBuffer(created, micro_memory_id, extracted) ==
    /\ facts' = extracted.facts
    /\ facts_doc' = extracted.doc
    /\ IF check_consolidation_ready(created)
       THEN \E memories \in {memories_to_consolidate(created, now)} :
            \E env \in Environments(memories) :
            \E run \in {ConsolidateSelected(created, super_memories, now,
                                             memories, env)} :
                /\ Relevant(env, run)
                /\ micro' = run.micro
                /\ super_memories' = run.super
                /\ outcome' =
                       [RunOutcome("end_session", micro_memory_id, created, run)
                           EXCEPT !.fact_keys = extracted.keys]
       ELSE /\ micro' = created
            /\ super_memories' = super_memories
            /\ outcome' = [NoOutcome EXCEPT
                               !.op = "end_session",
                               !.result = micro_memory_id,
                               !.stage = "below_threshold",
                               !.count_at_check = get_unconsolidated_count(created),
                               !.eligible_at_check = Cardinality(EligibleIds(created)),
                               !.fact_keys = extracted.keys]
    /\ UNCHANGED current_session_messages
    /\ UNCHANGED now
    /\ UNCHANGED safetyVars

\* the end of end_session once the micro memory is written: the facts
\* extracted from the session, the check of check_consolidation_ready, the
\* consolidation, the clearing of the buffer
EndSessionCreated(created, micro_memory_id, extracted) ==
    /\ facts' = extracted.facts
    /\ facts_doc' = extracted.doc
    /\ IF check_consolidation_ready(created)
       THEN \E memories \in {memories_to_consolidate(created, now)} :
            \E env \in Environments(memories) :
            \E run \in {ConsolidateSelected(created, super_memories, now,
                                             memories, env)} :
                /\ Relevant(env, run)
                /\ micro' = run.micro
                /\ super_memories' = run.super
                /\ outcome' =
                       [RunOutcome("end_session", micro_memory_id, created, run)
                           EXCEPT !.fact_keys = extracted.keys]
       ELSE /\ micro' = created
            /\ super_memories' = super_memories
            /\ outcome' = [NoOutcome EXCEPT
                               !.op = "end_session",
                               !.result = micro_memory_id,
                               !.stage = "below_threshold",
                               !.count_at_check = get_unconsolidated_count(created),
                               !.eligible_at_check = Cardinality(EligibleIds(created)),
                               !.fact_keys = extracted.keys]
    /\ current_session_messages' = <<>>
    /\ UNCHANGED now
    /\ UNCHANGED safetyVars

\* end_session(reason); create_ok is whether the micro memory write succeeds.
\* The summary text is not part of the state: a failed summary call is replaced
\* by the fallback string and the session ends in the same way.  save_ok is
\* whether the durable writes of the facts extracted from the session succeed.
MemoryEndSession ==
    IF Len(current_session_messages) < 2
    THEN /\ outcome' = [NoOutcome EXCEPT !.op = "end_session", !.stage = "short"]
         /\ UNCHANGED <<micro, super_memories, now, current_session_messages>>
         /\ UNCHANGED <<safetyVars, factVars>>
    ELSE \E create_ok \in BOOLEAN :
         IF ~create_ok
         THEN /\ outcome' = [NoOutcome EXCEPT !.op = "end_session",
                                              !.stage = "create_failed"]
              /\ UNCHANGED <<micro, super_memories, now, current_session_messages>>
              /\ UNCHANGED <<safetyVars, factVars>>
         ELSE \E created \in
                  {Append(micro,
                          NewMicroMemory(
                              calculate_session_importance(
                                  extract_session_emotions(current_session_messages),
                                  extract_session_topics(current_session_messages),
                                  Len(current_session_messages)),
                              now))} :
              \E save_ok \in BOOLEAN :
              \E extracted \in
                  {extract_facts_from_session(
                       facts, facts_doc, current_session_messages,
                       Len(current_session_messages), now, save_ok)} :
                  EndSessionCreated(created, Len(micro) + 1, extracted)

\* end_session called on the memory manager alone
EndSession == MemoryEndSession /\ UNCHANGED appVars

\* consolidate_session_memories(importance_boost); MicroMemory has no method
\* boost_importance, so the call with a boost raises and the except returns None
ConsolidateSessionMemories(importance_boost) ==
    /\ \E memories \in {get_recent_micro_memories(micro, now, CONSOLIDATION_THRESHOLD,
                                                   ConsolidationMinImportance, FALSE)} :
           IF Len(memories) = 0 \/ importance_boost > 0
           THEN /\ outcome' =
                       [NoOutcome EXCEPT
                           !.op = "consolidate_session_memories",
                           !.stage = IF Len(memories) = 0
                                     THEN "no_memories" ELSE "boost_raised",
                           !.count_at_check = get_unconsolidated_count(micro),
                           !.eligible_at_check = Cardinality(EligibleIds(micro)),
                           !.selected = SelectedIds(memories)]
                /\ UNCHANGED <<micro, super_memories>>
           ELSE \E batch \in {memories_to_consolidate(micro, now)} :
                \E env \in Environments(batch) :
                \E run \in {ConsolidateSelected(micro, super_memories, now,
                                                 batch, env)} :
                    /\ Relevant(env, run)
                    /\ micro' = run.micro
                    /\ super_memories' = run.super
                    /\ outcome' = RunOutcome("consolidate_session_memories", run.id,
                                             micro, run)
    /\ UNCHANGED <<now, current_session_messages>>
    /\ UNCHANGED <<safetyVars, factVars, appVars>>

\* get_all_super_memories(limit): newest first
get_all_super_memories(supers, limit) ==
    Prefix([p \in 1..Len(supers) |-> supers[Len(supers) + 1 - p]], limit)

\* get_context_for_prompt(max_micro_memories, relevance_threshold); the threshold
\* is in tenths, so relevance_threshold * 10 is in tenths of importance
GetContextForPrompt(max_micro_memories, relevance_threshold) ==
    /\ outcome' =
           [NoOutcome EXCEPT
               !.op = "get_context_for_prompt",
               !.stage = "decayed",
               !.limit = max_micro_memories,
               !.min_importance = relevance_threshold * 10,
               !.returned =
                   get_recent_micro_memories(
                       micro, now, max_micro_memories,
                       IF 20 > relevance_threshold * 10
                       THEN 20 ELSE relevance_threshold * 10,
                       TRUE),
               !.returned_super = get_all_super_memories(super_memories, 3)]
    /\ micro' = DocsAfterRead(micro, now, max_micro_memories, TRUE)
    /\ UNCHANGED <<super_memories, now, current_session_messages>>
    /\ UNCHANGED <<safetyVars, factVars, appVars>>

\* the documents a call removed from the collection
DeletedDocs(before, after) ==
    {[memory_id |-> i, consolidated |-> before[i].consolidated,
      importance |-> before[i].importance, created_at |-> before[i].created_at] :
        i \in {k \in 1..Len(before) : before[k].exists /\ ~after[k].exists}}

\* cleanup_old_data(): cleanup_old_memories(days_threshold=60)
CleanupOldData(commit_ok) ==
    /\ \E after \in {cleanup_old_memories(micro, now, 60, commit_ok)} :
       \E deleted \in {DeletedDocs(micro, after)} :
           /\ micro' = after
           /\ outcome' = [NoOutcome EXCEPT !.op = "cleanup_old_data",
                                           !.days_threshold = 60,
                                           !.result = Cardinality(deleted),
                                           !.deleted = deleted]
    /\ UNCHANGED <<super_memories, now, current_session_messages>>
    /\ UNCHANGED <<safetyVars, factVars, appVars>>

\* time passes
Tick ==
    /\ now < MaxTicks * TickDays
    /\ now' = now + TickDays
    /\ outcome' = NoOutcome
    /\ UNCHANGED <<micro, super_memories, current_session_messages>>
    /\ UNCHANGED <<safetyVars, factVars, appVars>>

MemoryNext ==
    \/ \E c \in SessionContents : AddMessageToSession("user", c)
    \/ AddMessageToSession("assistant", AssistantReply)
    \/ EndSession
    \/ \E boost \in {0, 3} : ConsolidateSessionMemories(boost)
    \/ \E call \in {<<5, 6>>, <<2, 0>>} : GetContextForPrompt(call[1], call[2])
    \/ \E commit_ok \in BOOLEAN : CleanupOldData(commit_ok)
    \/ Tick

SpecMemory == MemoryInit /\ [][MemoryNext]_vars

(***************************************************************************)
(* The MicroMemory store on its own: every public method of the class,     *)
(* called in any order on a small collection, and the manager's read       *)
(***************************************************************************)
\* initial importances a caller of create_micro_memory passes: 0.5, 5.0 and 8.0
StoreImportances == {5, 50, 80}

StoreInit ==
    /\ micro = <<>>
    /\ super_memories = <<>>
    /\ now = 0
    /\ current_session_messages = <<>>
    /\ outcome = NoOutcome
    /\ facts = NoFacts
    /\ facts_doc = NoFacts
    /\ safetyIdle
    /\ AppIdle

\* create_micro_memory(..., initial_importance)
CreateMicroMemory(initial_importance) ==
    /\ Len(micro) < MaxStoreDocs
    /\ micro' = Append(micro, NewMicroMemory(initial_importance, now))
    /\ outcome' = [NoOutcome EXCEPT !.op = "create_micro_memory",
                                    !.result = Len(micro) + 1]
    /\ UNCHANGED <<super_memories, now, current_session_messages>>
    /\ UNCHANGED <<safetyVars, factVars, appVars>>

\* mark_as_consolidated(memory_id): True when the update is written, False when
\* the store raises (an unknown id, a rejected write)
MarkAsConsolidated(memory_id, write_ok) ==
    /\ micro' = mark_as_consolidated(micro, memory_id, write_ok)
    /\ outcome' =
           [NoOutcome EXCEPT
               !.op = "mark_as_consolidated",
               !.selected = <<memory_id>>,
               !.result = IF write_ok /\ memory_id \in ExistingIds(micro)
                          THEN 1 ELSE 0,
               !.stage = IF memory_id \notin ExistingIds(micro) THEN "unknown_id"
                         ELSE IF micro[memory_id].consolidated
                         THEN "already_consolidated" ELSE "unconsolidated"]
    /\ UNCHANGED <<super_memories, now, current_session_messages>>
    /\ UNCHANGED <<safetyVars, factVars, appVars>>

\* cleanup_old_memories(days_threshold)
CleanupOldMemories(days_threshold, commit_ok) ==
    /\ \E after \in {cleanup_old_memories(micro, now, days_threshold, commit_ok)} :
       \E deleted \in {DeletedDocs(micro, after)} :
           /\ micro' = after
           /\ outcome' = [NoOutcome EXCEPT !.op = "cleanup_old_memories",
                                           !.days_threshold = days_threshold,
                                           !.result = Cardinality(deleted),
                                           !.deleted = deleted]
    /\ UNCHANGED <<super_memories, now, current_session_messages>>
    /\ UNCHANGED <<safetyVars, factVars, appVars>>

\* get_recent_micro_memories(limit, min_importance, apply_decay)
GetRecentMicroMemories(limit, min_importance, apply_decay) ==
    /\ outcome' =
           [NoOutcome EXCEPT
               !.op = "get_recent_micro_memories",
               !.stage = IF apply_decay THEN "decayed" ELSE "raw",
               !.limit = limit,
               !.min_importance = min_importance,
               !.returned = get_recent_micro_memories(micro, now, limit,
                                                      min_importance, apply_decay)]
    /\ micro' = DocsAfterRead(micro, now, limit, apply_decay)
    /\ UNCHANGED <<super_memories, now, current_session_messages>>
    /\ UNCHANGED <<safetyVars, factVars, appVars>>

StoreNext ==
    \/ \E i \in StoreImportances : CreateMicroMemory(i)
    \/ \E id \in 1..MaxStoreDocs, write_ok \in BOOLEAN : MarkAsConsolidated(id, write_ok)
    \/ \E days \in {0, 60}, commit_ok \in BOOLEAN : CleanupOldMemories(days, commit_ok)
    \/ \E limit \in {1, 2}, min_importance \in {0, ConsolidationMinImportance},
          apply_decay \in BOOLEAN :
           GetRecentMicroMemories(limit, min_importance, apply_decay)
    \/ \E call \in {<<5, 6>>, <<2, 0>>} : GetContextForPrompt(call[1], call[2])
    \/ Tick

SpecStore == StoreInit /\ [][StoreNext]_vars

(***************************************************************************)
(* The reads of the store: a collection of a few documents, read again and *)
(* again as it ages, one half-life at a time                               *)
(***************************************************************************)
\* initial importances, in tenths: 0.0, 5.0 and 8.0
ReadImportances == {0, 50, 80}

\* the collections the reads are applied to: documents created in the order
\* of their ids, some of them marked consolidated since
ReadStores ==
    UNION {[1..n -> [importance : ReadImportances, created_at : {0},
                     consolidated : BOOLEAN, exists : {TRUE}]] : n \in 0..MaxReadDocs}

ReadsInit ==
    /\ micro \in ReadStores
    /\ super_memories = <<>>
    /\ now = 0
    /\ current_session_messages = <<>>
    /\ outcome = NoOutcome
    /\ facts = NoFacts
    /\ facts_doc = NoFacts
    /\ safetyIdle
    /\ AppIdle

\* one half-life passes
HalfLifePasses ==
    /\ now < MaxHalfLives * HALF_LIFE_DAYS
    /\ now' = now + HALF_LIFE_DAYS
    /\ outcome' = NoOutcome
    /\ UNCHANGED <<micro, super_memories, current_session_messages>>
    /\ UNCHANGED <<safetyVars, factVars, appVars>>

ReadsNext ==
    \/ \E limit \in {1, 2}, min_importance \in {0, ConsolidationMinImportance},
          apply_decay \in BOOLEAN :
           GetRecentMicroMemories(limit, min_importance, apply_decay)
    \/ \E call \in {<<5, 6>>, <<2, 0>>} : GetContextForPrompt(call[1], call[2])
    \/ HalfLifePasses

SpecReads == ReadsInit /\ [][ReadsNext]_vars

(***************************************************************************)
(* PersistentFacts inside the MemoryManager: the public methods of the     *)
(* class, the session calls that reach it, the construction of a new       *)
(* manager for the same user, and the passing of time                      *)
(***************************************************************************)
\* the calls of set_fact drawn: (category, key, value)
FactSettings ==
    { <<"identity", "name", "Anna">>, <<"identity", "name", "Bea">>,
      <<"identity", "nickname", "Bea">> }

FactKeys == {<<call[1], call[2]>> : call \in FactSettings}

FactContents == { <<"call", "me", "bea">> }

\* the store holds the memories of earlier sessions, one short of the most the
\* model lets it hold, and no fact yet
FactsInit ==
    /\ micro = Preloaded(MaxMicro - 1)
    /\ super_memories = <<>>
    /\ now = 0
    /\ current_session_messages = <<>>
    /\ outcome = NoOutcome
    /\ facts = NoFacts
    /\ facts_doc = NoFacts
    /\ safetyIdle
    /\ AppIdle

\* what a call on the facts leaves in `outcome`
FactOutcome(op, category, key, given, call) ==
    [NoOutcome EXCEPT !.op = op,
                      !.result = IF call.returned THEN 1 ELSE 0,
                      !.fact_keys = IF call.facts = facts THEN {}
                                    ELSE {<<category, key>>},
                      !.fact_given = given,
                      !.fact_before = get_fact(facts, category, key)]

\* set_fact(category, key, value): source is "user"
SetFact(category, key, value, save_ok) ==
    /\ \E call \in {set_fact(facts, facts_doc, category, key, value, "user",
                              now, save_ok)} :
           /\ facts' = call.facts
           /\ facts_doc' = call.doc
           /\ outcome' = [FactOutcome("set_fact", category, key, <<value>>, call)
                              EXCEPT !.fact_keys = {<<category, key>>}]
    /\ UNCHANGED <<micro, super_memories, now, current_session_messages>>
    /\ UNCHANGED <<safetyVars, appVars>>

\* get_fact(category, key)
GetFact(category, key) ==
    /\ outcome' = [NoOutcome EXCEPT !.op = "get_fact",
                                    !.fact_before = get_fact(facts, category, key),
                                    !.fact = get_fact(facts, category, key)]
    /\ UNCHANGED <<micro, super_memories, now, current_session_messages, factVars>>
    /\ UNCHANGED <<safetyVars, appVars>>

\* delete_fact(category, key)
DeleteFact(category, key, save_ok) ==
    /\ \E call \in {delete_fact(facts, facts_doc, category, key, save_ok)} :
           /\ facts' = call.facts
           /\ facts_doc' = call.doc
           /\ outcome' = FactOutcome("delete_fact", category, key, <<>>, call)
    /\ UNCHANGED <<micro, super_memories, now, current_session_messages>>
    /\ UNCHANGED <<safetyVars, appVars>>

\* extract_facts_from_message(user_message, ai_response), as process_message
\* calls it after the reply
ExtractFactsFromMessage(user_message, save_ok) ==
    /\ \E call \in {extract_facts_from_message(facts, facts_doc, user_message,
                                               now, save_ok)} :
       \E found \in {extracted_facts(user_message)} :
           /\ facts' = call.facts
           /\ facts_doc' = call.doc
           /\ outcome' = [NoOutcome EXCEPT
                              !.op = "extract_facts_from_message",
                              !.result = Len(found),
                              !.fact_keys = call.keys,
                              !.fact_given = IF found = <<>> THEN <<>>
                                             ELSE <<found[Len(found)][3]>>,
                              !.fact_before = get_fact(facts, "identity", "name")]
    /\ UNCHANGED <<micro, super_memories, now, current_session_messages>>
    /\ UNCHANGED <<safetyVars, appVars>>

\* MemoryManager.__init__ for the same user (the registry entry was evicted, or
\* the process restarted): the facts are loaded, the session buffer is empty
NewMemoryManager(load_ok) ==
    /\ facts' = load_facts(facts_doc, load_ok)
    /\ current_session_messages' = <<>>
    /\ outcome' = [NoOutcome EXCEPT !.op = "init",
                                    !.result = IF load_ok THEN 1 ELSE 0]
    /\ UNCHANGED <<micro, super_memories, now, facts_doc>>
    /\ UNCHANGED <<safetyVars, appVars>>

FactsNext ==
    \/ \E call \in FactSettings, save_ok \in BOOLEAN :
           SetFact(call[1], call[2], call[3], save_ok)
    \/ \E k \in FactKeys : GetFact(k[1], k[2])
    \/ \E k \in FactKeys, save_ok \in BOOLEAN : DeleteFact(k[1], k[2], save_ok)
    \/ \E c \in FactContents, save_ok \in BOOLEAN : ExtractFactsFromMessage(c, save_ok)
    \/ \E load_ok \in BOOLEAN : NewMemoryManager(load_ok)
    \/ \E c \in FactContents : AddMessageToSession("user", c)
    \/ AddMessageToSession("assistant", AssistantReply)
    \/ EndSession
    \/ CleanupOldData(TRUE)
    \/ GetContextForPrompt(2, 0)
    \/ GetRecentMicroMemories(2, 0, TRUE)
    \/ Tick

SpecFacts == FactsInit /\ [][FactsNext]_vars

(***************************************************************************)
(* Properties of consolidation                                             *)
(***************************************************************************)
\* the stages at which a run of consolidate_memories ends
ConsolidationRunStages == {"not_enough", "summarize_failed", "write_failed", "done"}

\* the documents whose consolidated flag is true in `after` and was not in `before`
Flipped(before, after) ==
    {i \in ExistingIds(after) :
        after[i].consolidated /\ (i > Len(before) \/ ~before[i].consolidated)}

Range(seq) == {seq[p] : p \in 1..Len(seq)}

\* C4: after any consolidation run, store failures included, the micro memories
\* the run flipped to consolidated are none or exactly the source_memory_ids of
\* the super memory it created, and no memory outside the batch changed
C4_MarkingAllOrNothing ==
    [][outcome'.stage \in ConsolidationRunStages =>
          /\ \/ Flipped(micro, micro') = {}
             \/ /\ Len(super_memories') = Len(super_memories) + 1
                /\ Flipped(micro, micro') =
                       Range(super_memories'[Len(super_memories')].source_memory_ids)
          /\ \A i \in 1..Len(micro) :
                 i \notin Range(outcome'.selected) => micro'[i] = micro[i]]_vars

\* C5: a run in which the summarization or the super memory write fails marks
\* no micro memory, stores no super memory, and leaves the batch it selected
\* unconsolidated and selected again by the next check
C5_FailedRunConsumesNothing ==
    [][outcome'.stage \in {"summarize_failed", "write_failed"} =>
          /\ Flipped(micro, micro') = {}
          /\ super_memories' = super_memories
          /\ \A id \in Range(outcome'.selected) :
                 micro'[id].exists /\ ~micro'[id].consolidated
          /\ \A after \in {micro'}, later \in {now'} :
                 SelectedIds(memories_to_consolidate(after, later)) =
                     outcome'.selected]_vars

\* a run over a full batch has failed at the super memory write
C5_Witness ==
    /\ outcome.stage = "write_failed"
    /\ Len(outcome.selected) = CONSOLIDATION_THRESHOLD
    /\ super_memories = <<>>

\* C6: at a consolidation check at which no collaborator fails (session end,
\* checkpoint or manual trigger, with or without a boost), a super memory is
\* created iff the unconsolidated count at the check is at least 10
C6_ConsolidatesIffThreshold ==
    [][(/\ outcome'.op \in {"end_session", "consolidate_session_memories"}
        /\ outcome'.stage \in {"below_threshold", "no_memories", "boost_raised",
                               "not_enough", "done"})
          => (Len(super_memories') = Len(super_memories) + 1
                 <=> outcome'.count_at_check >= CONSOLIDATION_THRESHOLD)]_vars

C8_ConsolidatedIsOneWay ==
    [][\A i \in ExistingIds(micro) :
           (micro[i].consolidated /\ micro'[i].exists) => micro'[i].consolidated]_vars

\* mark_as_consolidated has been called on a consolidated document and returned True
C8_Witness ==
    /\ outcome.op = "mark_as_consolidated"
    /\ outcome.stage = "already_consolidated"
    /\ outcome.result = 1
    /\ micro[outcome.selected[1]].consolidated

\* C9: no memory returned by get_recent_micro_memories or by
\* get_context_for_prompt has its consolidated flag true
C9_ReadsReturnNoConsolidated ==
    \A p \in 1..Len(outcome.returned) : ~outcome.returned[p].consolidated

\* a read has returned a memory while a consolidated document that passes the
\* importance filter was in the collection
C9_Witness ==
    /\ outcome.op \in {"get_recent_micro_memories", "get_context_for_prompt"}
    /\ outcome.returned # <<>>
    /\ \E i \in ExistingIds(micro) :
           /\ micro[i].consolidated
           /\ FracGE(calculate_decayed_importance(micro[i].importance,
                                                  micro[i].created_at, now),
                     Frac(ConsolidationMinImportance, 1))

\* C10: no document deleted by cleanup_old_memories has its consolidated flag false
C10_CleanupSparesUnconsolidated ==
    \A d \in outcome.deleted : d.consolidated

\* a cleanup has deleted a document and left an unconsolidated one that is older
\* than every threshold and whose decayed importance is below MIN_IMPORTANCE
C10_Witness ==
    /\ outcome.op = "cleanup_old_memories"
    /\ outcome.deleted # {}
    /\ \E i \in ExistingIds(micro) :
           /\ ~micro[i].consolidated
           /\ micro[i].created_at < now - 60
           /\ FracLT(calculate_decayed_importance(micro[i].importance,
                                                  micro[i].created_at, now),
                     Frac(MIN_IMPORTANCE, 1))

(***************************************************************************)
(* Properties of the persistent facts                                      *)
(***************************************************************************)
\* C11: after set_fact(c, k, v), directly or from an extraction, on a key that
\* may already hold a value, get_fact(c, k) returns v and exactly one fact is
\* held for (c, k); the document holds at most one, and holds v when set_fact
\* returned True
C11_LastWriteWins ==
    outcome.op \in {"set_fact", "extract_facts_from_message"} =>
        \A ck \in outcome.fact_keys :
            /\ get_fact(facts, ck[1], ck[2]) = outcome.fact_given
            /\ Cardinality(FactEntries(facts, ck[1], ck[2])) = 1
            /\ Cardinality(FactEntries(facts_doc, ck[1], ck[2])) <= 1
            /\ (outcome.op = "set_fact" /\ outcome.result = 1) =>
                   get_fact(facts_doc, ck[1], ck[2]) = outcome.fact_given

\* set_fact has overwritten a different value of the same key and reported success
C11_Witness ==
    /\ outcome.op = "set_fact"
    /\ outcome.result = 1
    /\ outcome.fact_before # <<>>
    /\ outcome.fact_before # outcome.fact_given
    /\ get_fact(facts, "identity", "name") = outcome.fact_given

\* C12: a fact that is held in memory and durably stays retrievable with the
\* same value across every step that neither sets nor deletes its key (session
\* ends, consolidations, cleanups, the passing of time, sets and deletes of
\* other keys, a new manager that loads the document)
C12_FactNeverExpires ==
    [][\A ck \in FactKeys :
          (/\ ck \notin outcome'.fact_keys
           /\ ~(outcome'.op = "init" /\ outcome'.result = 0)
           /\ get_fact(facts, ck[1], ck[2]) # <<>>
           /\ get_fact(facts_doc, ck[1], ck[2]) = get_fact(facts, ck[1], ck[2]))
              => /\ get_fact(facts', ck[1], ck[2]) = get_fact(facts, ck[1], ck[2])
                 /\ get_fact(facts_doc', ck[1], ck[2]) =
                        get_fact(facts_doc, ck[1], ck[2])]_vars

\* a cleanup has deleted consolidated memories, 84 days after the start, while
\* two facts are held in memory and durably
C12_Witness ==
    /\ outcome.op = "cleanup_old_data"
    /\ outcome.deleted # {}
    /\ super_memories # <<>>
    /\ \A ck \in FactKeys :
           /\ get_fact(facts, ck[1], ck[2]) # <<>>
           /\ get_fact(facts_doc, ck[1], ck[2]) = get_fact(facts, ck[1], ck[2])

(***************************************************************************)
(* Properties of the reads of the store                                    *)
(***************************************************************************)
FracEq(a, b) == a.num * b.den = b.num * a.den

\* i0 halved n times, as a fraction
RECURSIVE Halved(_, _)
Halved(i0, n) ==
    IF n = 0 THEN Frac(i0, 1)
    ELSE Frac(Halved(i0, n - 1).num, 2 * Halved(i0, n - 1).den)

\* C13: a memory of initial importance i0 read n half-lives after its creation
\* has decayed importance max(i0 * 0.5^n, 0.1) (5.0 read after 28 days gives
\* 1.25), and the decayed importance of a memory never grows as time passes
C13_DecayFormula ==
    [][/\ outcome'.stage = "decayed" =>
              \A p \in 1..Len(outcome'.returned) :
              \A m \in {outcome'.returned[p]}, later \in {now'} :
              \A halved \in {Halved(m.importance,
                                     (later - m.created_at) \div HALF_LIFE_DAYS)} :
                  /\ FracEq(m.current_importance,
                            IF FracGE(halved, Frac(1, 1)) THEN halved ELSE Frac(1, 1))
                  /\ (m.importance = 50 /\ later - m.created_at = 28) =>
                         FracEq(m.current_importance, Frac(125, 10))
       /\ \A i \in ExistingIds(micro) : \A later \in {now'} :
              FracGE(calculate_decayed_importance(micro[i].importance,
                                                  micro[i].created_at, now),
                     calculate_decayed_importance(micro[i].importance,
                                                  micro[i].created_at, later))]_vars

\* a memory of importance 5.0 has been read 28 days after its creation and
\* the read gave 1.25
C13_Witness ==
    /\ outcome.op = "get_recent_micro_memories"
    /\ outcome.stage = "decayed"
    /\ Len(outcome.returned) >= 1
    /\ outcome.returned[1].importance = 50
    /\ now - outcome.returned[1].created_at = 28
    /\ FracEq(outcome.returned[1].current_importance, Frac(125, 10))

\* the importance a read compares: decayed at the time of the read, or raw
CurrentImportance(i, decayed) ==
    IF decayed
    THEN calculate_decayed_importance(micro[i].importance, micro[i].created_at, now)
    ELSE Frac(micro[i].importance, 1)

\* all the non-consolidated memories whose importance passes the threshold
Qualifying(min_importance, decayed) ==
    {i \in UnconsolidatedIds(micro) :
        FracGE(CurrentImportance(i, decayed), Frac(min_importance, 1))}

\* the memories of a list are the `limit` highest of the set `among`, in
\* descending order of importance
IsTopOf(returned, among, limit, decayed) ==
    LET ids == {returned[p].memory_id : p \in 1..Len(returned)}
    IN  /\ ids \subseteq among
        /\ Len(returned) = IF limit < Cardinality(among) THEN limit
                            ELSE Cardinality(among)
        /\ \A p \in 1..(Len(returned) - 1) :
               FracGE(returned[p].current_importance, returned[p + 1].current_importance)
        /\ \A i \in among \ ids : \A p \in 1..Len(returned) :
               FracGE(returned[p].current_importance, CurrentImportance(i, decayed))

\* C14: get_recent_micro_memories(limit, min_importance, apply_decay) returns
\* the `limit` highest (all, when fewer) of ALL the non-consolidated memories
\* whose importance, decayed or raw as asked, is at least min_importance, in
\* descending order of that importance
C14_RecentIsTopOfAll ==
    outcome.op = "get_recent_micro_memories" =>
        IsTopOf(outcome.returned,
                Qualifying(outcome.min_importance, outcome.stage = "decayed"),
                outcome.limit, outcome.stage = "decayed")

\* C15: get_recent_micro_memories and get_context_for_prompt leave every
\* micro memory (importance, consolidated flag, existence), every super memory
\* and every fact, in memory and in the document, as they were, and the
\* importance they return next to the decayed one is the stored one
C15_ReadsChangeNothing ==
    [][outcome'.op \in {"get_recent_micro_memories", "get_context_for_prompt"} =>
          /\ micro' = micro
          /\ super_memories' = super_memories
          /\ facts' = facts
          /\ facts_doc' = facts_doc
          /\ \A p \in 1..Len(outcome'.returned) :
                 outcome'.returned[p].importance =
                     micro[outcome'.returned[p].memory_id].importance]_vars

\* a read has returned a memory whose decayed importance is below the stored
\* one, while a super memory and a fact are stored
C15_Witness ==
    /\ outcome.op = "get_recent_micro_memories"
    /\ \E p \in 1..Len(outcome.returned) :
           /\ FracLT(outcome.returned[p].current_importance,
                     Frac(outcome.returned[p].importance, 1))
           /\ micro[outcome.returned[p].memory_id].importance =
                  outcome.returned[p].importance
    /\ super_memories # <<>>
    /\ get_fact(facts_doc, "identity", "name") # <<>>

\* C16: every memory cleanup_old_memories(days_threshold) deletes is
\* consolidated, older than days_threshold days, and has a decayed importance
\* that has come down to the floor 0.1
C16_CleanupDeletesOnlyAtFloor ==
    \A d \in outcome.deleted :
        /\ d.consolidated
        /\ now - d.created_at > outcome.days_threshold
        /\ ~FracGT(calculate_decayed_importance(d.importance, d.created_at, now),
                   Frac(DecayFloor, 1))

\* C17: get_context_for_prompt(max_micro_memories, relevance_threshold)
\* includes the max_micro_memories highest (all, when fewer) of the
\* non-consolidated memories whose decayed importance is at least
\* relevance_threshold * 10, so that a threshold of 0.0 excludes none; stated
\* for the stores small enough for the query window to hold every memory
C17_ContextHonoursThreshold ==
    (/\ outcome.op = "get_context_for_prompt"
     /\ get_unconsolidated_count(micro) <= 2 * outcome.limit)
        => IsTopOf(outcome.returned, Qualifying(outcome.min_importance, TRUE),
                   outcome.limit, TRUE)

\* C18: in every assessment assess_safety returns, the normal dict and the dict
\* of the except branch alike, requires_intervention is true exactly when
\* risk_level is high or critical, and requires_followup is true exactly when
\* risk_level is medium or low
C18_FlagsFollowLevel ==
    Returned =>
        /\ assessment.requires_intervention <=>
               assessment.risk_level \in {"high", "critical"}
        /\ assessment.requires_followup <=>
               assessment.risk_level \in {"medium", "low"}

\* a context multiplier is present: a keyword of some category is in the text
MultiplierPresent ==
    \E c \in DOMAIN risk_multipliers : AnyMatch(risk_multipliers[c], text)

\* C19: the intervention_type of a returned assessment is fixed by its final
\* risk level and by whether the message holds a context multiplier:
\* critical -> emergency_resources; high -> emergency_resources with a
\* multiplier and crisis_response without; medium -> direct_concern;
\* low -> gentle_check_in; none -> none
C19_InterventionLookup ==
    Returned =>
        assessment.intervention_type =
            CASE assessment.risk_level = "critical" -> "emergency_resources"
              [] assessment.risk_level = "high" /\ MultiplierPresent ->
                     "emergency_resources"
              [] assessment.risk_level = "high" /\ ~MultiplierPresent ->
                     "crisis_response"
              [] assessment.risk_level = "medium" -> "direct_concern"
              [] assessment.risk_level = "low" -> "gentle_check_in"
              [] assessment.risk_level = "none" -> "none"

\* a message with a medium keyword and a multiplier is returned high with
\* emergency_resources
C19_Witness ==
    /\ Returned
    /\ assessment.risk_level = "high"
    /\ MultiplierPresent
    /\ locals.multiplier_found
    /\ ~AnyMatch(high_risk_keywords, text)
    /\ assessment.intervention_type = "emergency_resources"

\* the multiplier categories with a keyword in the text
CategoriesPresent ==
    {c \in DOMAIN risk_multipliers : AnyMatch(risk_multipliers[c], text)}

\* the level phase 1 leaves for the message
KeywordTierLevel == Phase1Keywords(InitialLocals, text).risk_level

\* C20: in the multiplier phase a category that is present adds to risk_score
\* and raises the level by at most one step, medium -> high or high ->
\* critical and nothing else, and a category that is absent changes nothing;
\* when exactly one category is present the phase ends at most one step above
\* the keyword-tier level; levels none and low leave the phase as they entered
C20_MultiplierSteps ==
    [][assess_pc = "phase2" =>
        /\ IF risk_multiplier_categories[category_index] \in CategoriesPresent
           THEN /\ locals'.risk_score > locals.risk_score
                /\ \/ locals'.risk_level = locals.risk_level
                   \/ <<locals.risk_level, locals'.risk_level>> \in
                          {<<"medium", "high">>, <<"high", "critical">>}
           ELSE locals' = locals
        /\ assess_pc' = "phase3" =>
               /\ Cardinality(CategoriesPresent) = 1 =>
                      Rank(locals'.risk_level) <= Rank(KeywordTierLevel) + 1
               /\ KeywordTierLevel \in {"none", "low"} =>
                      locals'.risk_level = KeywordTierLevel]_vars

\* the phase has ended for a medium-tier message with one category present:
\* the level is high and the score is the keyword's 5 plus the multiplier's 2
C20_Witness ==
    /\ assess_pc = "phase3"
    /\ Cardinality(CategoriesPresent) = 1
    /\ KeywordTierLevel = "medium"
    /\ locals.risk_level = "high"
    /\ locals.risk_score = 7
    /\ locals.multiplier_found

\* C21: in the intensity phase an intensity above 0.8 takes a level that is
\* medium to high, an intensity above 0.9 takes a level that is high to
\* critical, and an intensity of 0.8 or less leaves the level as it was
C21_IntensityAmplification ==
    [][assess_pc = "phase3" =>
        /\ (intensity > 80 /\ locals.risk_level = "medium") =>
               locals'.risk_level = "high"
        /\ (intensity > 90 /\ locals.risk_level = "high") =>
               locals'.risk_level = "critical"
        /\ intensity <= 80 => locals'.risk_level = locals.risk_level]_vars

\* the phase has run at intensity 0.95 on a high-tier message without
\* multipliers and left the level at critical
C21_Witness ==
    /\ assess_pc = "phase4"
    /\ intensity > 90
    /\ KeywordTierLevel = "high"
    /\ CategoriesPresent = {}
    /\ locals.risk_level = "critical"

\* the states of the most recent snapshots of the history, three at most
RecentStates ==
    LET n == Len(emotional_history)
        first == IF n > 3 THEN n - 2 ELSE 1
    IN  [i \in 1..(n - first + 1) |-> emotional_history[first + i - 1].state]

\* C22: whenever at least two of the most recent snapshots (three at most) are
\* depressed, the history phase adds the concern persistent_depression_pattern
\* and takes a level that is medium to high, for a history of any length, one
\* of exactly two snapshots included
C22_DepressionPattern ==
    [][(assess_pc = "phase4" /\ CountState(RecentStates, "depressed") >= 2) =>
        /\ \E i \in 1..Len(locals'.safety_concerns) :
               locals'.safety_concerns[i] = "persistent_depression_pattern"
        /\ locals.risk_level = "medium" => locals'.risk_level = "high"]_vars

\* the message holds no keyword of the critical, high, medium or ideation tier
NoKeywordOfAnyTier ==
    /\ ~AnyMatch(critical_keywords, text)
    /\ ~AnyMatch(high_risk_keywords, text)
    /\ ~AnyMatch(medium_risk_keywords, text)
    /\ ~AnyMatch(ideation_keywords, text)

\* C23: a message that matches no keyword of any tier is returned with
\* risk_level none and requires_intervention false, whatever multipliers,
\* intensity and history come with it and whatever risk_score they add up to
C23_NoKeywordIsNone ==
    (Returned /\ NoKeywordOfAnyTier) =>
        /\ assessment.risk_level = "none"
        /\ assessment.requires_intervention = FALSE

\* a message without keywords but with two multiplier categories, at intensity
\* above 0.9 and with an anxious-to-depressed history, is returned none with
\* a score of 4 + 2 + 1
C23_Witness ==
    /\ Returned
    /\ NoKeywordOfAnyTier
    /\ Cardinality(CategoriesPresent) = 2
    /\ intensity > 90
    /\ CountState(RecentStates, "depressed") >= 2
    /\ assessment.risk_score = 7
    /\ assessment.risk_level = "none"
    /\ assessment.requires_intervention = FALSE

(***************************************************************************)
(* CaelOrchestrator (backend/orchestrator.py): process_message, the stages *)
(* a message goes through, and end_session.  A text is a sequence of       *)
(* words; intensities are hundredths.                                      *)
(***************************************************************************)
ConversationMode == {"normal", "crisis", "follow_up", "proactive", "therapeutic"}

\* ProactiveEngagementEngine.should_be_proactive; last_proactive_time is
\* assigned nowhere, so the guard on it never applies
should_be_proactive(history, emotional_analysis) ==
    IF emotional_analysis.emotional_intensity > 70 THEN FALSE
    ELSE /\ Len(history) >= 3
         /\ emotional_analysis.emotional_state \in {"neutral", "positive"}

\* the selection with the emotional modes tried before the follow-up mode
select_conversation_mode_emotion_first(safety_assessment, emotional_analysis, intent, history) ==
    IF safety_assessment.requires_intervention THEN "crisis"
    ELSE IF /\ emotional_analysis.emotional_intensity > 60
            /\ intent.primary_intent \in {"deep_sharing", "value_exploration"}
         THEN "therapeutic"
    ELSE IF /\ safety_assessment.risk_level \in {"medium", "low"}
            /\ safety_assessment.requires_followup
         THEN "follow_up"
    ELSE IF should_be_proactive(history, emotional_analysis) THEN "proactive"
    ELSE "normal"

\* the selection keeping CRISIS once the orchestrator is in it
select_conversation_mode_sticky(safety_assessment, emotional_analysis, intent, history) ==
    IF safety_assessment.requires_intervention \/ current_mode = "crisis"
    THEN "crisis"
    ELSE IF /\ safety_assessment.risk_level \in {"medium", "low"}
            /\ safety_assessment.requires_followup
         THEN "follow_up"
    ELSE IF /\ emotional_analysis.emotional_intensity > 60
            /\ intent.primary_intent \in {"deep_sharing", "value_exploration"}
         THEN "therapeutic"
    ELSE IF should_be_proactive(history, emotional_analysis) THEN "proactive"
    ELSE "normal"

\* _select_conversation_mode; history is self.conversation_history
select_conversation_mode(safety_assessment, emotional_analysis, intent, history) ==
    IF safety_assessment.requires_intervention THEN "crisis"
    ELSE IF /\ safety_assessment.risk_level \in {"medium", "low"}
            /\ safety_assessment.requires_followup
         THEN "follow_up"
    ELSE IF /\ emotional_analysis.emotional_intensity > 60
            /\ intent.primary_intent \in {"deep_sharing", "value_exploration"}
         THEN "therapeutic"
    ELSE IF should_be_proactive(history, emotional_analysis) THEN "proactive"
    ELSE "normal"

\* the loop of phase 2 over the first n categories
RECURSIVE ApplyMultipliers(_, _, _)
ApplyMultipliers(st, n, lowered) ==
    IF n = 0 THEN st
    ELSE ApplyMultiplier(ApplyMultipliers(st, n - 1, lowered),
                         risk_multiplier_categories[n], lowered)

\* assess_safety as one call: the dict it returns; raises is whether a
\* statement of the try block raises
assess_safety(user_message, emotional_analysis, history, raises) ==
    IF raises THEN FailSafeAssessment
    ELSE LET lowered == Lower(user_message)
             level == emotional_analysis.emotional_intensity
             s1 == Phase1Keywords(InitialLocals, lowered)
             s2 == ApplyMultipliers(s1, Len(risk_multiplier_categories), lowered)
             s3 == Phase3Intensity(s2, level)
             s4 == Phase4History(s3, history)
         IN  BuildAssessment(s4, level)

\* the texts the orchestrator itself replies with
ValidationErrorText == <<"message", "could", "not", "be", "processed">>

ProcessingErrorText ==
    <<"i'm", "having", "trouble", "processing", "your", "message", "right", "now">>

FallbackCrisisText ==
    <<"i'm", "concerned", "about", "your", "safety", "please", "reach", "out",
      "to", "someone", "call", "988">>

FallbackEmotionalText ==
    <<"i'm", "having", "a", "brief", "technical", "issue", "but", "i'm", "still",
      "here", "with", "you">>

FallbackText ==
    <<"i'm", "having", "a", "moment", "of", "technical", "difficulty">>

EmergencyFallbackText ==
    <<"i'm", "concerned", "about", "your", "wellbeing", "please", "reach", "out",
      "to", "988">>

GreetingFallbackText == <<"welcome", "back", "what's", "on", "your", "mind", "today">>

GreetingCommands == { <<"[GREETING_RETURNING]">>, <<"[GREETING_FIRST]">> }

\* what chat.completions.create does in one call: it raises, or it returns a
\* message whose content is one of these texts: one with safety language, one
\* without, one of fewer than 20 characters, and the empty string
CompletionTexts ==
    { <<"you", "deserve", "support", "and", "i", "am", "here", "with", "you">>,
      <<"that", "sounds", "like", "a", "long", "week", "at", "work">>,
      <<"ok">>,
      <<>> }

Completions ==
    {[raises |-> TRUE, content |-> <<>>]} \cup
    {[raises |-> FALSE, content |-> t] : t \in CompletionTexts}

\* _create_fallback_response
create_fallback_response(safety_assessment, emotional_analysis) ==
    IF safety_assessment.requires_intervention
    THEN [content |-> FallbackCrisisText, model_used |-> "fallback_crisis",
          is_crisis |-> FALSE]
    ELSE IF emotional_analysis.emotional_intensity > 60
    THEN [content |-> FallbackEmotionalText, model_used |-> "fallback_emotional",
          is_crisis |-> FALSE]
    ELSE [content |-> FallbackText, model_used |-> "fallback", is_crisis |-> FALSE]

\* _generate_ai_response: the completion, or the fallback when the call raises
generate_ai_response(completion, safety_assessment, emotional_analysis) ==
    IF completion.raises
    THEN create_fallback_response(safety_assessment, emotional_analysis)
    ELSE [content |-> completion.content, model_used |-> "gpt-4o-mini",
          is_crisis |-> FALSE]

\* _generate_crisis_response: the completion, or the critical fallback
generate_crisis_response(completion, safety_assessment) ==
    IF completion.raises
    THEN [content |-> EmergencyFallbackText, model_used |-> "emergency_fallback",
          is_crisis |-> TRUE]
    ELSE [content |-> completion.content, model_used |-> "gpt-4o-mini",
          is_crisis |-> TRUE]

\* _generate_followup_response: on a raise it hands over to _generate_ai_response,
\* which makes the next call
generate_followup_response(completions, safety_assessment, emotional_analysis) ==
    IF completions[1].raises
    THEN generate_ai_response(completions[2], safety_assessment, emotional_analysis)
    ELSE [content |-> completions[1].content, model_used |-> "gpt-4o-mini",
          is_crisis |-> FALSE]

safety_terms ==
    << <<"support">>, <<"help">>, <<"crisis">>, <<"988">>, <<"professional">>,
       <<"safe">>, <<"safety">>, <<"reach", "out">> >>

\* len(content.strip()) < 20 on the texts of the model
TooShort(content) == Len(content) < 5

\* _assess_response_quality: whether the response is to be generated again.
\* The checks that only mark a response unacceptable change nothing.
assess_response_quality(ai_response, emotional_analysis, safety_assessment) ==
    [regenerate |->
        \/ TooShort(ai_response.content)
        \/ /\ safety_assessment.risk_level \in {"high", "critical"}
           /\ ~AnyMatch(safety_terms, Lower(ai_response.content))]

\* stages 7 and 8: the response of the mode's generator and, when the quality
\* check asks for it, the response of one more call of _generate_ai_response
generated_response(mode, safety_assessment, emotional_analysis, completions) ==
    LET first ==
            IF mode = "crisis"
            THEN [response |-> generate_crisis_response(completions[1],
                                                        safety_assessment),
                  calls |-> 1]
            ELSE IF mode = "follow_up"
            THEN [response |-> generate_followup_response(
                                   completions, safety_assessment, emotional_analysis),
                  calls |-> IF completions[1].raises THEN 2 ELSE 1]
            ELSE [response |-> generate_ai_response(completions[1], safety_assessment,
                                                    emotional_analysis),
                  calls |-> 1]
    IN  IF assess_response_quality(first.response, emotional_analysis,
                                   safety_assessment).regenerate
        THEN [response |-> generate_ai_response(completions[first.calls + 1],
                                                safety_assessment, emotional_analysis),
              calls |-> first.calls + 1]
        ELSE first

EmotionHistoryMaxLen == 50

ConversationHistoryMaxLen == 20

\* self.conversation_history[-20:]
LastEntries(history, n) ==
    IF Len(history) > n THEN SubSeq(history, Len(history) - n + 1, Len(history))
    ELSE history

\* the reply of a call that ended before or outside the stages of a message
PlainReply(op, stage, success, response) ==
    [op |-> op, stage |-> stage, success |-> success, response |-> response,
     mode |-> current_mode, previous_mode |-> current_mode,
     generator |-> "none", risk_level |-> "none",
     requires_intervention |-> FALSE, requires_followup |-> FALSE,
     therapeutic |-> FALSE, proactive |-> FALSE,
     is_crisis |-> FALSE, crisis_resources |-> FALSE, model_used |-> "none",
     checkpoint |-> FALSE, significant |-> FALSE]

\* EmotionTracker.record_emotion: the snapshot of one analysis, appended to
\* the deque
record_emotion(history, emotional_analysis) ==
    DequeAppend(history,
                [state |-> emotional_analysis.emotional_state,
                 intensity |-> emotional_analysis.emotional_intensity],
                EmotionHistoryMaxLen)

\* a Python slice seq[-a:-b] with a > b >= 0
SliceFromEnd(seq, a, b) ==
    SubSeq(seq, (IF Len(seq) > a THEN Len(seq) - a ELSE 0) + 1, Len(seq) - b)

\* EmotionTracker.get_emotional_summary: the empty string under three
\* snapshots, else a summary that names the trend.  recent_avg and earlier_avg
\* are both sums divided by 3; intensities are hundredths, so the band of 0.2
\* on the averages is 60 on the sums.
get_emotional_summary(history) ==
    IF Len(history) < 3 THEN [summary |-> FALSE, trend |-> "none"]
    ELSE LET intensities == LastEntries(history, 10)
             recent == SliceFromEnd(intensities, 3, 0)
             earlier == SliceFromEnd(intensities, 6, 3)
             recent_sum == SumIntensity(recent, Len(recent))
             earlier_sum == SumIntensity(earlier, Len(earlier))
         IN  [summary |-> TRUE,
              trend |-> IF Len(intensities) >= 5
                        THEN IF recent_sum > earlier_sum + 60 THEN "intensifying"
                             ELSE IF recent_sum < earlier_sum - 60 THEN "calming"
                             ELSE "stable"
                        ELSE "emerging"]

\* EmotionTracker.has_significant_emotional_event
has_significant_emotional_event(history) ==
    /\ history # <<>>
    /\ history[Len(history)].intensity > 70

\* the collaborators of a consolidation when none of them fails
WorkingCollaborators == [llm_ok |-> TRUE, add_ok |-> TRUE, mark_fails |-> {}]

\* _check_memory_consolidation: session_length is len(conversation_history) at
\* the call, which process_message makes before the exchange is appended.
\* The periodic checkpoint runs consolidate_session_memories(), here with
\* working collaborators; the call made after a significant emotional event
\* is the boosted one, which returns None and changes nothing.
check_memory_consolidation(history, emotions, docs, supers, today) ==
    LET session_length == Len(history)
        periodic == session_length > 0 /\ session_length % 10 = 0
        run == ConsolidateSelected(docs, supers, today,
                                   memories_to_consolidate(docs, today),
                                   WorkingCollaborators)
    IN  [periodic |-> periodic,
         significant |-> has_significant_emotional_event(emotions),
         micro |-> IF periodic THEN run.micro ELSE docs,
         super |-> IF periodic THEN run.super ELSE supers]

\* process_message(user_message).  emotional_analysis and intent are what
\* _analyze_emotional_analysis and _analyze_intent return for the message; env
\* is what the collaborators do during the call: whether the assessment raises,
\* whether a statement between the assessment and the mode selection raises,
\* whether the write of an extracted fact succeeds, and the completions of the
\* calls of the text generator in order.  The consolidation check at the end
\* finds fewer memories than its threshold in the store of this orchestrator
\* and changes nothing.
ProcessMessage(user_message, emotional_analysis, intent, env) ==
    IF user_message = <<>>
    THEN /\ reply' = PlainReply("process_message", "validation_error", FALSE,
                                ValidationErrorText)
         /\ UNCHANGED <<current_mode, conversation_history, emotion_history>>
         /\ UNCHANGED <<safetyVars, memoryVars>>
    ELSE IF user_message \in GreetingCommands
    THEN /\ reply' = PlainReply("process_message", "greeting", TRUE,
                                IF env.completions[1].raises
                                THEN GreetingFallbackText
                                ELSE env.completions[1].content)
         /\ UNCHANGED <<current_mode, conversation_history, emotion_history>>
         /\ UNCHANGED <<safetyVars, memoryVars>>
    ELSE \E history \in {record_emotion(emotion_history, emotional_analysis)} :
         \E safety_assessment \in {assess_safety(user_message, emotional_analysis,
                                                 history, env.assess_raises)} :
             /\ emotion_history' = history
             /\ safety_history' =
                    IF env.assess_raises THEN safety_history
                    ELSE DequeAppend(safety_history,
                                     [risk_level |-> safety_assessment.risk_level,
                                      concerns |-> safety_assessment.safety_concerns,
                                      triggers |-> safety_assessment.specific_triggers],
                                     SafetyHistoryMaxLen)
             /\ UNCHANGED <<arguments, assess_pc, category_index, locals, raised,
                            assessment>>
             /\ UNCHANGED now
             /\ IF env.update_raises
                THEN /\ reply' = [PlainReply("process_message", "raised", FALSE,
                                             ProcessingErrorText)
                                     EXCEPT !.risk_level = safety_assessment.risk_level]
                     /\ current_session_messages' =
                            Append(current_session_messages,
                                   [role |-> "user", content |-> user_message])
                     /\ outcome' = NoOutcome
                     /\ UNCHANGED <<current_mode, conversation_history, factVars>>
                     /\ UNCHANGED <<micro, super_memories>>
                ELSE \E mode \in {select_conversation_mode(
                                      safety_assessment, emotional_analysis, intent,
                                      conversation_history)} :
                     \E generated \in {generated_response(
                                           mode, safety_assessment, emotional_analysis,
                                           env.completions)} :
                     \E extracted \in {extract_facts_from_message(
                                           facts, facts_doc, user_message, now,
                                           env.save_ok)} :
                     \E checkpoint \in {check_memory_consolidation(
                                            conversation_history, history, micro,
                                            super_memories, now)} :
                         /\ current_mode' = mode
                         /\ micro' = checkpoint.micro
                         /\ super_memories' = checkpoint.super
                         /\ current_session_messages' =
                                current_session_messages \o
                                << [role |-> "user", content |-> user_message],
                                   [role |-> "assistant",
                                    content |-> generated.response.content] >>
                         /\ facts' = extracted.facts
                         /\ facts_doc' = extracted.doc
                         /\ outcome' = [NoOutcome EXCEPT
                                            !.op = "extract_facts_from_message",
                                            !.fact_keys = extracted.keys]
                         /\ conversation_history' =
                                LastEntries(Append(conversation_history,
                                                   [conversation_mode |-> mode]),
                                            ConversationHistoryMaxLen)
                         /\ reply' =
                                [op |-> "process_message", stage |-> "replied",
                                 success |-> TRUE,
                                 response |-> generated.response.content,
                                 mode |-> mode, previous_mode |-> current_mode,
                                 generator |->
                                     IF mode \in {"crisis", "follow_up"}
                                     THEN mode ELSE "normal",
                                 risk_level |-> safety_assessment.risk_level,
                                 requires_intervention |->
                                     safety_assessment.requires_intervention,
                                 requires_followup |->
                                     safety_assessment.requires_followup,
                                 therapeutic |->
                                     /\ emotional_analysis.emotional_intensity > 60
                                     /\ intent.primary_intent \in
                                            {"deep_sharing", "value_exploration"},
                                 proactive |->
                                     should_be_proactive(conversation_history,
                                                         emotional_analysis),
                                 is_crisis |-> generated.response.is_crisis,
                                 crisis_resources |->
                                     safety_assessment.requires_intervention,
                                 model_used |-> generated.response.model_used,
                                 checkpoint |-> checkpoint.periodic,
                                 significant |-> checkpoint.significant]

\* CaelOrchestrator.end_session: the memory manager ends the session (it
\* raises nothing), then the in-memory state of the conversation is cleared
OrchestratorEndSession ==
    /\ MemoryEndSession
    /\ conversation_history' = <<>>
    /\ current_mode' = "normal"
    /\ emotion_history' = emotion_history
    /\ reply' = [PlainReply("end_session", "ended", outcome'.result # 0, <<>>)
                    EXCEPT !.mode = "normal"]

\* what the analyses return for the messages of a run
EmotionalAnalyses ==
    { [emotional_intensity |-> 30, emotional_state |-> "neutral"],
      [emotional_intensity |-> 65, emotional_state |-> "neutral"],
      [emotional_intensity |-> 95, emotional_state |-> "depressed"] }

Intents == { [primary_intent |-> "conversation"], [primary_intent |-> "deep_sharing"] }

OrchestratorMessages ==
    { <<"I've", "been", "a", "bit", "stressed", "about", "work">>,
      <<"i", "feel", "worthless">>,
      <<"I", "want", "to", "end", "my", "life", "tonight">> }

\* the text generator answers every call with the same supportive text, or is
\* out for the whole call
SteadyCompletions ==
    { [k \in 1..3 |-> c] :
        c \in {[raises |-> TRUE, content |-> <<>>],
               [raises |-> FALSE,
                content |-> <<"you", "deserve", "support", "and", "i", "am", "here",
                              "with", "you">>]} }

SteadyEnvs ==
    [assess_raises : BOOLEAN, update_raises : {FALSE}, save_ok : {TRUE},
     completions : SteadyCompletions]

AllEnvs ==
    [assess_raises : BOOLEAN, update_raises : BOOLEAN, save_ok : BOOLEAN,
     completions : [1..3 -> Completions]]

\* a new orchestrator: the constructor's state, an empty store and no facts
NewOrchestrator ==
    /\ RegistryIdle
    /\ summary_call = "none"
    /\ current_mode = "normal"
    /\ conversation_history = <<>>
    /\ emotion_history = <<>>
    /\ reply = NoReply
    /\ micro = <<>>
    /\ super_memories = <<>>
    /\ now = 0
    /\ current_session_messages = <<>>
    /\ outcome = NoOutcome
    /\ facts = NoFacts
    /\ facts_doc = NoFacts
    /\ safetyIdle

\* the exchanges a conversation needs before should_be_proactive can hold
ProactiveAfter == 3

CalmMessage == <<"I've", "been", "a", "bit", "stressed", "about", "work">>

CalmAnswer == <<"you", "deserve", "support", "and", "i", "am", "here", "with", "you">>

\* an orchestrator that has answered ProactiveAfter calm messages in NORMAL
\* mode: the state NewOrchestrator reaches by that many calls of
\* process_message on CalmMessage at intensity 0.3, every collaborator working
OrchestratorInit ==
    /\ RegistryIdle
    /\ summary_call = "none"
    /\ current_mode = "normal"
    /\ conversation_history =
           [i \in 1..ProactiveAfter |-> [conversation_mode |-> "normal"]]
    /\ emotion_history =
           [i \in 1..ProactiveAfter |-> [state |-> "neutral", intensity |-> 30]]
    /\ reply = NoReply
    /\ micro = <<>>
    /\ super_memories = <<>>
    /\ now = 0
    /\ current_session_messages =
           [i \in 1..(2 * ProactiveAfter) |->
               IF i % 2 = 1 THEN [role |-> "user", content |-> CalmMessage]
               ELSE [role |-> "assistant", content |-> CalmAnswer]]
    /\ outcome = NoOutcome
    /\ facts = NoFacts
    /\ facts_doc = NoFacts
    /\ message = <<>>
    /\ emotional_context = [emotional_intensity |-> 0]
    /\ emotional_history = <<>>
    /\ assess_pc = "idle"
    /\ category_index = 1
    /\ locals = InitialLocals
    /\ raised = FALSE
    /\ assessment = [risk_level |-> "pending"]
    /\ safety_history =
           [i \in 1..ProactiveAfter |->
               [risk_level |-> "none", concerns |-> <<>>, triggers |-> <<>>]]

\* up to MaxTurns more messages, and the end of the session
OrchestratorNext ==
    \/ /\ Len(emotion_history) < ProactiveAfter + MaxTurns
       /\ micro = <<>>
       /\ \E user_message \in OrchestratorMessages :
          \E emotional_analysis \in EmotionalAnalyses :
          \E intent \in Intents :
          \E env \in SteadyEnvs :
              ProcessMessage(user_message, emotional_analysis, intent, env)
       /\ UNCHANGED hostVars
    \/ /\ reply.op # "end_session"
       /\ OrchestratorEndSession
       /\ UNCHANGED hostVars

SpecOrchestrator == OrchestratorInit /\ [][OrchestratorNext]_vars

\* one message, a greeting command included, under every behaviour of the
\* collaborators
ReplyNext ==
    /\ Len(emotion_history) < MaxReplyTurns
    /\ reply.op = "none"
    /\ \E user_message \in OrchestratorMessages \cup GreetingCommands :
       \E emotional_analysis \in EmotionalAnalyses :
       \E intent \in Intents :
       \E env \in AllEnvs :
           ProcessMessage(user_message, emotional_analysis, intent, env)
    /\ UNCHANGED hostVars

SpecReply == NewOrchestrator /\ [][ReplyNext]_vars

(***************************************************************************)
(* Properties of the orchestrator                                          *)
(***************************************************************************)
\* the last call was a process_message that went through its stages
Replied == reply.op = "process_message" /\ reply.stage = "replied"

\* C24: the mode chosen for a message is the first mode, in the order CRISIS,
\* FOLLOW_UP, THERAPEUTIC, PROACTIVE, NORMAL, whose condition holds; it is
\* CRISIS exactly when the assessment has requires_intervention, and
\* FOLLOW_UP exactly when it is not CRISIS and the level is medium or low
\* with requires_followup
C24_ModeByPriority ==
    Replied =>
        /\ current_mode = reply.mode
        /\ reply.mode =
               IF reply.requires_intervention THEN "crisis"
               ELSE IF reply.risk_level \in {"medium", "low"} /\ reply.requires_followup
                    THEN "follow_up"
               ELSE IF reply.therapeutic THEN "therapeutic"
               ELSE IF reply.proactive THEN "proactive"
               ELSE "normal"
        /\ (reply.mode = "crisis") <=> reply.requires_intervention
        /\ (reply.mode = "follow_up") <=>
               /\ reply.mode # "crisis"
               /\ reply.risk_level \in {"medium", "low"}
               /\ reply.requires_followup

\* a medium-risk message of high intensity and deep sharing, late enough in
\* the conversation: the therapeutic condition holds and the mode is FOLLOW_UP
C24_Witness ==
    /\ Replied
    /\ reply.risk_level = "medium"
    /\ reply.therapeutic
    /\ Len(conversation_history) > ProactiveAfter
    /\ reply.mode = "follow_up"
    /\ current_mode = "follow_up"


\* C25: the mode is recomputed for every message and is not carried over from
\* the message before: a message assessed at risk none is never handled in
\* CRISIS mode, whatever the mode of the previous message was (CRISIS
\* included), the mode of a handled message is a function of that message's
\* assessment, emotion and intent alone, and end_session leaves the mode at
\* NORMAL.
C25_ModeNotSticky ==
    [][ /\ ( /\ reply'.op = "process_message"
             /\ reply'.stage = "replied"
             /\ reply'.risk_level = "none" )
            => /\ current_mode' # "crisis"
               /\ reply'.generator # "crisis"
        /\ ( /\ reply'.op = "process_message"
             /\ reply'.stage = "replied"
             /\ ~reply'.requires_intervention
             /\ ~reply'.requires_followup
             /\ ~reply'.therapeutic
             /\ ~reply'.proactive )
            => current_mode' = "normal"
        /\ reply'.op = "end_session" => current_mode' = "normal"
      ]_vars

\* a message assessed at risk none directly after a message handled in CRISIS
C25_Witness ==
    /\ Replied
    /\ reply.previous_mode = "crisis"
    /\ reply.risk_level = "none"
    /\ current_mode \in {"normal", "proactive", "therapeutic"}


(***************************************************************************)
(* Properties of the end of a session                                      *)
(***************************************************************************)
\* a step of end_session whose consolidation run stopped at the summarizer or
\* at the write of the super memory
FailedConsolidationAtEnd ==
    /\ outcome'.op = "end_session"
    /\ outcome'.stage \in {"summarize_failed", "write_failed"}

\* C26: when the consolidation run inside end_session fails at the summarizer
\* or at the write of the super memory, end_session still returns the id of
\* the micro memory it has just created, the memory is in the store, the
\* session buffer is empty, no super memory is added, and the batch is left
\* for the next threshold check: every memory of it is still unconsolidated,
\* the threshold check still passes and selects the same batch.
C26_EndSessionSurvivesConsolidationFailure ==
    [][ FailedConsolidationAtEnd =>
            /\ outcome'.result = Len(micro) + 1
            /\ Len(micro') = Len(micro) + 1
            /\ current_session_messages' = <<>>
            /\ super_memories' = super_memories
            /\ \A after \in {micro'} : \A selected \in {outcome'.selected} :
                   /\ \A p \in 1..Len(selected) :
                          selected[p] \in UnconsolidatedIds(after)
                   /\ check_consolidation_ready(after)
                   /\ SelectedIds(memories_to_consolidate(after, now)) = selected
      ]_vars

\* an end_session of a session of at least two messages whose consolidation
\* run failed
C26_Witness ==
    /\ outcome.op = "end_session"
    /\ outcome.stage \in {"summarize_failed", "write_failed"}
    /\ outcome.result > 0
    /\ Len(outcome.selected) = CONSOLIDATION_THRESHOLD
    /\ current_session_messages = <<>>


\* C27: every call of process_message returns a reply whose response text is
\* not empty, whatever the stores and the text generator do during the call
\* (a reply is always returned: every branch of the call ends in one, the
\* outer except included).
C27_ReplyTextNeverEmpty ==
    reply.op = "process_message" => reply.response # <<>>


(***************************************************************************)
(* The registry of orchestrators (backend/app.py): /index requests served  *)
(* by concurrent threads, /session/clear and the shutdown handler.  An     *)
(* instance is seen through the number of messages in its session buffer.  *)
(***************************************************************************)
NewInstance(user_id) ==
    [user_id |-> user_id, session_messages |-> 0, evicted |-> FALSE]

\* CaelOrchestrator.end_session on an instance: None (saved FALSE) for a
\* session of fewer than two messages or when the store rejects the micro
\* memory (the buffer is kept), else the buffer is cleared
instance_end_session(instance, store_ok) ==
    IF instance.session_messages < 2 \/ ~store_ok
    THEN [instance |-> instance, saved |-> FALSE]
    ELSE [instance |-> [instance EXCEPT !.session_messages = 0], saved |-> TRUE]

\* index_chat: a thread takes a request of user_id
BeginRequest(r, user_id) ==
    /\ requests[r].pc = "idle"
    /\ requests' = [requests EXCEPT ![r] = [pc |-> "check", user_id |-> user_id,
                                            orchestrator |-> 0]]
    /\ UNCHANGED <<user_orchestrators, instances, shutdown, persisted>>

\* get_user_orchestrator: `if user_id not in user_orchestrators`
CheckRegistry(r) ==
    /\ requests[r].pc = "check"
    /\ requests' = [requests EXCEPT ![r].pc =
                       IF user_orchestrators[requests[r].user_id] = 0
                       THEN "create" ELSE "return"]
    /\ UNCHANGED <<user_orchestrators, instances, shutdown, persisted>>

\* get_user_orchestrator: the body of the if.  Without the services the call
\* raises and index_chat answers with its fallback; else an orchestrator is
\* constructed and assigned to the registry entry
CreateOrchestrator(r, services_ok) ==
    /\ requests[r].pc = "create"
    /\ IF ~services_ok
       THEN /\ requests' = [requests EXCEPT ![r] = NoRequest]
            /\ UNCHANGED <<user_orchestrators, instances>>
       ELSE /\ Len(instances) < MaxInstances
            /\ instances' = Append(instances, NewInstance(requests[r].user_id))
            /\ user_orchestrators' =
                   [user_orchestrators EXCEPT ![requests[r].user_id] =
                                                  Len(instances) + 1]
            /\ requests' = [requests EXCEPT ![r].pc = "return"]
    /\ UNCHANGED <<shutdown, persisted>>

\* get_user_orchestrator: `return user_orchestrators[user_id]`, a KeyError
\* when the entry was cleared in between (index_chat answers with its fallback)
ReturnOrchestrator(r) ==
    /\ requests[r].pc = "return"
    /\ requests' =
           [requests EXCEPT ![r] =
               IF user_orchestrators[requests[r].user_id] = 0 THEN NoRequest
               ELSE [@ EXCEPT !.pc = "process",
                              !.orchestrator =
                                  user_orchestrators[requests[r].user_id]]]
    /\ UNCHANGED <<user_orchestrators, instances, shutdown, persisted>>

\* orchestrator.process_message(message) on the instance obtained: the user
\* message and the reply are added to the session, or the user message alone
\* when a later stage raises
ProcessRequest(r, added) ==
    /\ requests[r].pc = "process"
    /\ instances[requests[r].orchestrator].session_messages + added
           <= MaxInstanceMessages
    /\ persisted[requests[r].user_id] < MaxSavedSessions
    /\ instances' = [instances EXCEPT ![requests[r].orchestrator].session_messages =
                                          @ + added]
    /\ requests' = [requests EXCEPT ![r] = NoRequest]
    /\ UNCHANGED <<user_orchestrators, shutdown, persisted>>

\* clear_session: end_session on the cached instance, then clear_user_orchestrator
ClearSession(user_id, store_ok) ==
    /\ user_orchestrators[user_id] # 0
    /\ \E ended \in {instance_end_session(instances[user_orchestrators[user_id]],
                                          store_ok)} :
           /\ instances' = [instances EXCEPT ![user_orchestrators[user_id]] =
                               [ended.instance EXCEPT !.evicted = TRUE]]
           /\ persisted' = [persisted EXCEPT ![user_id] =
                               IF ended.saved THEN @ + 1 ELSE @]
    /\ user_orchestrators' = [user_orchestrators EXCEPT ![user_id] = 0]
    /\ UNCHANGED <<requests, shutdown>>

\* shutdown_handler up to the loop: nothing to do on an empty registry, else
\* the loop runs over list(user_orchestrators.items())
ShutdownBegin ==
    /\ shutdown.pc = "idle"
    /\ \E cached \in {{[user_id |-> u, instance |-> user_orchestrators[u]] :
                          u \in {v \in Users : user_orchestrators[v] # 0}}} :
           shutdown' = IF cached = {}
                       THEN [NoShutdown EXCEPT !.pc = "returned"]
                       ELSE [pc |-> "saving", pending |-> cached,
                             snapshot |-> cached, visits |-> {}]
    /\ UNCHANGED <<user_orchestrators, instances, requests, persisted>>

\* a loop in which the first failed save ends the iteration
ShutdownSaveOneAborting(entry, store_ok) ==
    /\ shutdown.pc = "saving"
    /\ entry \in shutdown.pending
    /\ \E ended \in {instance_end_session(instances[entry.instance], store_ok)} :
           /\ instances' = [instances EXCEPT ![entry.instance] = ended.instance]
           /\ persisted' = [persisted EXCEPT ![entry.user_id] =
                               IF ended.saved THEN @ + 1 ELSE @]
           /\ shutdown' =
                  [shutdown EXCEPT
                      !.pending = IF instances[entry.instance].session_messages >= 2
                                     /\ ~store_ok
                                  THEN {} ELSE @ \ {entry},
                      !.visits = @ \cup
                          {[user_id |-> entry.user_id,
                            instance |-> entry.instance,
                            session_messages |->
                                instances[entry.instance].session_messages,
                            failed |-> instances[entry.instance].session_messages >= 2
                                       /\ ~store_ok,
                            persisted_before |-> persisted[entry.user_id]]}]
    /\ UNCHANGED <<user_orchestrators, requests>>

\* one pass of the loop of shutdown_handler: end_session on the instance of
\* the entry, inside the try of the loop body
ShutdownSaveOne(entry, store_ok) ==
    /\ shutdown.pc = "saving"
    /\ entry \in shutdown.pending
    /\ \E ended \in {instance_end_session(instances[entry.instance], store_ok)} :
           /\ instances' = [instances EXCEPT ![entry.instance] = ended.instance]
           /\ persisted' = [persisted EXCEPT ![entry.user_id] =
                               IF ended.saved THEN @ + 1 ELSE @]
           /\ shutdown' =
                  [shutdown EXCEPT
                      !.pending = @ \ {entry},
                      !.visits = @ \cup
                          {[user_id |-> entry.user_id,
                            instance |-> entry.instance,
                            session_messages |->
                                instances[entry.instance].session_messages,
                            failed |-> instances[entry.instance].session_messages >= 2
                                       /\ ~store_ok,
                            persisted_before |-> persisted[entry.user_id]]}]
    /\ UNCHANGED <<user_orchestrators, requests>>

\* shutdown_handler after the loop
ShutdownReturn ==
    /\ shutdown.pc = "saving"
    /\ shutdown.pending = {}
    /\ shutdown' = [shutdown EXCEPT !.pc = "returned"]
    /\ UNCHANGED <<user_orchestrators, instances, requests, persisted>>

RegistryInit ==
    /\ safetyIdle
    /\ MemoryIdle
    /\ current_mode = "normal"
    /\ conversation_history = <<>>
    /\ emotion_history = <<>>
    /\ reply = NoReply
    /\ summary_call = "none"
    /\ RegistryIdle

RegistryNext ==
    /\ \/ \E r \in RequestSlots : \E user_id \in Users : BeginRequest(r, user_id)
       \/ \E r \in RequestSlots : CheckRegistry(r)
       \/ \E r \in RequestSlots : \E services_ok \in BOOLEAN :
              CreateOrchestrator(r, services_ok)
       \/ \E r \in RequestSlots : ReturnOrchestrator(r)
       \/ \E r \in RequestSlots : \E added \in {1, 2} : ProcessRequest(r, added)
       \/ \E user_id \in Users : \E store_ok \in BOOLEAN :
              ClearSession(user_id, store_ok)
       \/ ShutdownBegin
       \/ \E entry \in shutdown.pending : \E store_ok \in BOOLEAN :
              ShutdownSaveOne(entry, store_ok)
       \/ ShutdownReturn
    /\ UNCHANGED <<safetyVars, memoryVars, orchVars, summary_call>>

SpecRegistry == RegistryInit /\ [][RegistryNext]_vars

\* C28: when shutdown_handler has returned, every session that was cached in
\* the registry when the loop started has been visited, and for every visited
\* session that held at least two messages and whose own save did not fail a
\* micro memory has been added to the user's collection during the visit; a
\* failed save of another session changes nothing of this.
C28_ShutdownSavesEverySession ==
    shutdown.pc = "returned" =>
        \A entry \in shutdown.snapshot :
            \E visit \in shutdown.visits :
                /\ visit.instance = entry.instance
                /\ visit.user_id = entry.user_id
                /\ (visit.session_messages >= 2 /\ ~visit.failed)
                       => persisted[visit.user_id] > visit.persisted_before

\* the handler has returned after one failed save and one save that succeeded
C28_Witness ==
    /\ shutdown.pc = "returned"
    /\ \E failed_visit, saved_visit \in shutdown.visits :
           /\ failed_visit.failed
           /\ failed_visit.session_messages >= 2
           /\ saved_visit.user_id # failed_visit.user_id
           /\ saved_visit.session_messages >= 2
           /\ ~saved_visit.failed
           /\ persisted[saved_visit.user_id] > saved_visit.persisted_before


\* C30: at any moment, two requests of one user that hold instances not yet
\* evicted hold the same instance, and an instance that was never evicted and
\* has session messages recorded on it is the one the registry holds for its
\* user.
C30_OneInstancePerUser ==
    /\ \A r1, r2 \in RequestSlots :
           ( /\ requests[r1].pc = "process"
             /\ requests[r2].pc = "process"
             /\ requests[r1].user_id = requests[r2].user_id
             /\ ~instances[requests[r1].orchestrator].evicted
             /\ ~instances[requests[r2].orchestrator].evicted )
               => requests[r1].orchestrator = requests[r2].orchestrator
    /\ \A i \in 1..Len(instances) :
           (instances[i].session_messages > 0 /\ ~instances[i].evicted)
               => user_orchestrators[instances[i].user_id] = i


(***************************************************************************)
(* end_session in steps: the call of chat.completions.create made by       *)
(* _generate_session_summary is the point where the call waits for the     *)
(* text generator.  The generator answers, raises, or does neither; the    *)
(* call carries no timeout argument and the client is built as OpenAI().   *)
(***************************************************************************)
\* end_session up to the call of the summary; a session of fewer than two
\* messages returns None before it
BeginEndSession ==
    /\ summary_call = "none"
    /\ IF Len(current_session_messages) < 2
       THEN /\ MemoryEndSession
            /\ summary_call' = "none"
       ELSE /\ summary_call' = "pending"
            /\ UNCHANGED <<safetyVars, memoryVars>>
    /\ UNCHANGED <<orchVars, registryVars>>

\* the text generator returns a summary
SummaryReturns ==
    /\ summary_call = "pending"
    /\ summary_call' = "returned"
    /\ UNCHANGED <<safetyVars, memoryVars, orchVars, registryVars>>

\* the call raises: the except of _generate_session_summary returns the
\* fallback "Conversation with n messages"
SummaryRaises ==
    /\ summary_call = "pending"
    /\ summary_call' = "raised"
    /\ UNCHANGED <<safetyVars, memoryVars, orchVars, registryVars>>

\* end_session after _generate_session_summary has returned
FinishEndSession ==
    /\ summary_call \in {"returned", "raised"}
    /\ MemoryEndSession
    /\ summary_call' = "none"
    /\ UNCHANGED <<orchVars, registryVars>>

SessionEndNext ==
    \/ /\ summary_call = "none"
       /\ \E c \in SessionContents : AddMessageToSession("user", c)
    \/ /\ summary_call = "none"
       /\ AddMessageToSession("assistant", AssistantReply)
    \/ BeginEndSession
    \/ SummaryReturns
    \/ SummaryRaises
    \/ FinishEndSession

\* the program's own steps are taken when they can be; whether the text
\* generator ever answers is not in the program's hands
SpecSessionEnd ==
    MemoryInit /\ [][SessionEndNext]_vars /\ WF_vars(FinishEndSession)

\* C29: an end_session that has reached the call of the summary eventually
\* completes.
C29_EndSessionTerminates ==
    (summary_call = "pending") ~> (summary_call = "none")


(***************************************************************************)
(* The EmotionTracker on its own: snapshots are recorded and the summary   *)
(* is asked for after any number of them                                   *)
(***************************************************************************)
RecordEmotion(emotional_analysis) ==
    /\ Len(emotion_history) < MaxSnapshots
    /\ emotion_history' = record_emotion(emotion_history, emotional_analysis)
    /\ reply' = NoReply
    /\ UNCHANGED <<current_mode, conversation_history>>
    /\ UNCHANGED <<safetyVars, memoryVars, hostVars>>

GetEmotionalSummary ==
    /\ \E result \in {get_emotional_summary(emotion_history)} :
           reply' = [op |-> "get_emotional_summary", summary |-> result.summary,
                     trend |-> result.trend]
    /\ UNCHANGED <<current_mode, conversation_history, emotion_history>>
    /\ UNCHANGED <<safetyVars, memoryVars, hostVars>>

TrackerNext ==
    \/ \E emotional_analysis \in EmotionalAnalyses : RecordEmotion(emotional_analysis)
    \/ GetEmotionalSummary

SpecTracker == NewOrchestrator /\ [][TrackerNext]_vars

\* the trend of the statement: the mean of the last three intensities against
\* the mean of the snapshots present among the three before them, with a band
\* of 0.2 (the two means are compared after multiplying by both lengths)
TrendOfMeans(history) ==
    LET recent == SliceFromEnd(history, 3, 0)
        previous == SliceFromEnd(history, 6, 3)
        recent_sum == SumIntensity(recent, Len(recent))
        previous_sum == SumIntensity(previous, Len(previous))
    IN  IF recent_sum * Len(previous) > 3 * previous_sum + 60 * Len(previous)
        THEN "intensifying"
        ELSE IF recent_sum * Len(previous) < 3 * previous_sum - 60 * Len(previous)
        THEN "calming"
        ELSE "stable"

\* C31: the trend named by get_emotional_summary is emerging under three
\* snapshots (no summary at all is accepted there) and, from three snapshots
\* on, the comparison of mean(last 3) with mean(previous 3) under a band of
\* 0.2, each mean over the snapshots present in its window (checked wherever
\* the previous window holds a snapshot, that is from four snapshots on).
C31_TrendClassification ==
    reply.op = "get_emotional_summary" =>
        /\ Len(emotion_history) < 3 => reply.trend \in {"emerging", "none"}
        /\ Len(emotion_history) >= 4 => reply.trend = TrendOfMeans(emotion_history)


\* a phrase of the high-risk tier occurs in the message, in any letter case
HighPhraseOccurs ==
    \E k \in 1..Len(high_risk_keywords) : Contains(text, Lower(high_risk_keywords[k]))

\* C32: a message in which a phrase of the high-risk tier occurs, in any
\* letter case, and no phrase of the critical tier, is returned with risk
\* level high or critical.
C32_HighTierIsHighOrCritical ==
    (Returned /\ HighPhraseOccurs /\ ~AnyMatch(critical_keywords, text)) =>
        assessment.risk_level \in {"high", "critical"}


\* C33: every handled message whose assessment has requires_intervention true
\* is answered by a crisis reply: marked is_crisis, with crisis_resources in
\* its metadata, whatever the text generator does during the call and
\* whatever the quality check asks for.
C33_InterventionGetsCrisisReply ==
    (Replied /\ reply.requires_intervention) =>
        /\ reply.is_crisis
        /\ reply.crisis_resources


\* C34: the buffered messages of a session are given up, by an emptied buffer
\* or by the eviction of the instance from the registry, only when a micro
\* memory was written for them in the same call or when they were fewer than
\* two; after a failed write the instance stays in the registry with its buffer.
C34_BufferKeptUntilPersisted ==
    [][ \A i \in 1..Len(instances) :
            /\ instances'[i].session_messages < instances[i].session_messages
                   => \/ instances[i].session_messages < 2
                      \/ persisted'[instances[i].user_id] >
                             persisted[instances[i].user_id]
            /\ (instances'[i].evicted /\ ~instances[i].evicted)
                   => instances'[i].session_messages < 2
      ]_vars


\* C35: an end_session on a buffer of at least two messages whose write is
\* accepted adds exactly one micro memory, returns its id and empties the
\* buffer; every other end_session (fewer than two messages, or a rejected
\* write) adds none; and an end_session that directly follows one that
\* returned an id adds none.
C35_OneMicroMemoryPerSession ==
    [][ outcome'.op = "end_session" =>
            /\ IF Len(current_session_messages) >= 2
                  /\ outcome'.stage # "create_failed"
               THEN /\ Len(micro') = Len(micro) + 1
                    /\ outcome'.result = Len(micro) + 1
                    /\ current_session_messages' = <<>>
               ELSE /\ Len(micro') = Len(micro)
                    /\ outcome'.result = 0
            /\ (outcome.op = "end_session" /\ outcome.result # 0)
                   => (Len(micro') = Len(micro) /\ outcome'.stage = "short")
      ]_vars

\* an end_session has found an empty buffer right after a session was saved
C35_Witness ==
    /\ outcome.op = "end_session"
    /\ outcome.stage = "short"
    /\ Len(micro) = InitialMemories + 1
    /\ current_session_messages = <<>>


\* the dict in memory and the durable document answer get alike for every key
FactViewsAgree(dict, doc) ==
    \A k \in FactKeys : get_fact(dict, k[1], k[2]) = get_fact(doc, k[1], k[2])

\* C36: a set_fact or delete_fact that starts with the dict and the durable
\* document in agreement leaves them in agreement, and one that reports
\* failure leaves get(category, key) at the value it had before the call.
C36_FactViewsAgreeAfterEveryCall ==
    [][ outcome'.op \in {"set_fact", "delete_fact"} =>
            /\ FactViewsAgree(facts, facts_doc) => FactViewsAgree(facts', facts_doc')
            /\ outcome'.result = 0 =>
                   \A k \in outcome'.fact_keys :
                       get_fact(facts', k[1], k[2]) = outcome'.fact_before
      ]_vars


\* C37: a consolidate_session_memories call that finds at least ten
\* unconsolidated micro memories of importance 2.0 or more, and at which
\* neither the summarizer nor the super memory write fails, returns the id
\* of a super memory it has just created.
C37_BoostedConsolidationReturnsId ==
    [][ (/\ outcome'.op = "consolidate_session_memories"
         /\ outcome'.eligible_at_check >= CONSOLIDATION_THRESHOLD
         /\ outcome'.stage \notin {"summarize_failed", "write_failed"})
            => /\ Len(super_memories') = Len(super_memories) + 1
               /\ outcome'.result = Len(super_memories')
      ]_vars


(***************************************************************************)
(* One long session of one orchestrator: calm messages answered by a       *)
(* working generator, greetings and empty messages between them, and the   *)
(* passing of time                                                         *)
(***************************************************************************)
\* the exchanges completed in the session: add_message_to_session('assistant')
\* is called once per answered message
ExchangesCompleted(messages) ==
    Cardinality({i \in DOMAIN messages : messages[i].role = "assistant"})

WorkingEnv ==
    [assess_raises |-> FALSE, update_raises |-> FALSE, save_ok |-> TRUE,
     completions |-> [k \in 1..3 |-> [raises |-> FALSE, content |-> CalmAnswer]]]

CalmAnalysis == [emotional_intensity |-> 30, emotional_state |-> "neutral"]

LongSessionNext ==
    \/ /\ ExchangesCompleted(current_session_messages) < MaxExchanges
       /\ ProcessMessage(CalmMessage, CalmAnalysis,
                         [primary_intent |-> "conversation"], WorkingEnv)
       /\ UNCHANGED hostVars
    \/ /\ \E user_message \in GreetingCommands \cup {<<>>} :
              ProcessMessage(user_message, CalmAnalysis,
                             [primary_intent |-> "conversation"], WorkingEnv)
       /\ UNCHANGED hostVars
    \/ Tick

SpecLongSession == NewOrchestrator /\ [][LongSessionNext]_vars

\* C38: on an answered message the periodic checkpoint is triggered exactly
\* when the number of exchanges completed in the session before that message
\* is a positive multiple of ten.
C38_CheckpointEveryTenExchanges ==
    [][ (/\ reply'.op = "process_message"
         /\ reply'.stage = "replied"
         /\ current_session_messages' # current_session_messages)
            => (reply'.checkpoint
                    <=> /\ ExchangesCompleted(current_session_messages) > 0
                        /\ ExchangesCompleted(current_session_messages) % 10 = 0)
      ]_vars


\* the creation times of the micro memories a super memory was built from
SourceTimes(super_memory) ==
    {micro[super_memory.source_memory_ids[p]].created_at :
        p \in 1..super_memory.source_memory_count}

\* C39: the date_range of every super memory starts at the creation time of
\* the oldest micro memory of its batch and ends at that of the newest, so
\* that start <= end.
C39_DateRangeSpansBatch ==
    \A s \in 1..Len(super_memories) :
        /\ \A t \in SourceTimes(super_memories[s]) :
               /\ super_memories[s].date_range.start <= t
               /\ t <= super_memories[s].date_range.end
        /\ super_memories[s].date_range.start \in SourceTimes(super_memories[s])
        /\ super_memories[s].date_range.end \in SourceTimes(super_memories[s])
        /\ super_memories[s].date_range.start <= super_memories[s].date_range.end


(***************************************************************************)
(* A new user: the store starts empty, and neither the store nor the       *)
(* summarizer fails in any call                                            *)
(***************************************************************************)
\* the last call met no failure of a collaborator
NothingFailed(result) ==
    /\ result.stage \notin {"create_failed", "summarize_failed", "write_failed"}
    /\ result.rejected = {}

FreshStoreNext ==
    \/ \E c \in SessionContents : AddMessageToSession("user", c)
    \/ AddMessageToSession("assistant", AssistantReply)
    \/ EndSession /\ NothingFailed(outcome') /\ facts' = facts_doc'
    \/ \E boost \in {0, 3} :
           ConsolidateSessionMemories(boost) /\ NothingFailed(outcome')

SpecFreshStore == StoreInit /\ [][FreshStoreNext]_vars

\* C40: in a run from an empty store without failures, every micro memory has
\* raw importance between 5.0 and 10.0, fewer than ten micro memories are
\* unconsolidated after every end_session that created one, and an end_session
\* that finds ten unconsolidated ones consolidates exactly those ten.
C40_BelowThresholdAfterEndSession ==
    /\ [](\A i \in 1..Len(micro) : micro[i].importance \in 50..100)
    /\ []((outcome.op = "end_session" /\ outcome.result # 0)
             => get_unconsolidated_count(micro) < CONSOLIDATION_THRESHOLD)
    /\ [][ (outcome'.op = "end_session"
            /\ outcome'.count_at_check >= CONSOLIDATION_THRESHOLD)
               => /\ outcome'.count_at_check = CONSOLIDATION_THRESHOLD
                  /\ outcome'.stage = "done"
                  /\ Len(outcome'.selected) = CONSOLIDATION_THRESHOLD
                  /\ Len(super_memories') = Len(super_memories) + 1
                  /\ get_unconsolidated_count(micro') = 0
         ]_vars

\* the tenth session of a new user has ended with a consolidation
C40_Witness ==
    /\ outcome.op = "end_session"
    /\ outcome.stage = "done"
    /\ Len(super_memories) = 1
    /\ get_unconsolidated_count(micro) = 0
    /\ \E i, j \in 1..Len(micro) : micro[i].importance # micro[j].importance

====
